---- MODULE Spec2Model ----
(***************************************************************************)
(* Verification model of ol1ves/ops-assistant:                             *)
(*   - the Safe Query Gate (QueryExecutor over a read-only connection),    *)
(*   - the tool-calling orchestrator (ChatBot._process_message_events).    *)
(* Strings are sequences of one-character strings, so that strip(),        *)
(* upper(), startswith(), substring tests and the \b(...)\b regular        *)
(* expression are computed character by character (ASCII).                 *)
(***************************************************************************)
EXTENDS Integers, Sequences, FiniteSets, TLC

VARIABLES
    connMode,       \* mode the sqlite connection was opened in (DatabaseProvider)
    dbData,         \* version of the stored data: a write would change it
    dbLog,          \* statements handed to cursor.execute, in order
    calls,          \* history of execute_safe_query calls: input and outcome
    conversations,  \* ChatBot._conversations: conversation id -> messages
    now,            \* datetime.now(), as read by get_system_prompt
    gen,            \* the locals of the running _process_message_events generator
    events,         \* the events the generator has yielded in this turn
    outcome,        \* how the last turn ended: "none", "done" or the exception raised
    phases,         \* the orchestrator states the turn went through
    deltas,         \* stream deltas the provider has sent so far
    turns,          \* turns started so far
    parked,         \* a second request's generator, suspended at one of its yields
    _request_log,   \* rate_limit._request_log: api key -> timestamps of admitted requests
    clock,          \* time.time()
    limit,          \* RATE_LIMIT_PER_HOUR as _get_limit reads it
    admitted,       \* every admission so far: api key -> timestamps, never pruned
    reply,          \* what the last call into the rate limiter gave its caller
    stub            \* the scripted provider and database of a test, or NoStub

gateVars == <<connMode, dbData, dbLog, calls>>

botVars == <<conversations, now, gen, events, outcome, phases, deltas, turns, parked>>

rateVars == <<_request_log, clock, limit, admitted, reply>>

vars == <<connMode, dbData, dbLog, calls,
          conversations, now, gen, events, outcome, phases, deltas, turns, parked,
          _request_log, clock, limit, admitted, reply, stub>>

----------------------------------------------------------------------------
(* Bounds of the model                                                     *)

\* fragments concatenated to form a candidate query
MaxFrags == 3
\* gate calls made on one connection
MaxCalls == 2
\* stream deltas the provider sends, over all its streams
MaxDeltas == 3
\* turns (calls of _process_message_events)
MaxTurns == 1
\* conversations the store comes to hold
MaxConvs == 2

\* turns of the conversations handed to the context budgeter
MaxSampleTurns == 2

\* the small ceilings handed to the context budgeter: 0..MaxCeiling
MaxCeiling == 60

----------------------------------------------------------------------------
(* Characters and python's str methods                                     *)

LowerAlpha ==
    <<"a","b","c","d","e","f","g","h","i","j","k","l","m",
      "n","o","p","q","r","s","t","u","v","w","x","y","z">>

UpperAlpha ==
    <<"A","B","C","D","E","F","G","H","I","J","K","L","M",
      "N","O","P","Q","R","S","T","U","V","W","X","Y","Z">>

Digits == {"0","1","2","3","4","5","6","7","8","9"}

Range(f) == {f[i] : i \in DOMAIN f}

\* characters str.strip() removes
Whitespace == {" ", "\t", "\n"}

\* str.upper() on one character: the table of the lower-case letters
UpperMap ==
    [c \in Range(LowerAlpha) |-> UpperAlpha[CHOOSE i \in 1..26 : LowerAlpha[i] = c]]

UpperChar(c) == IF c \in DOMAIN UpperMap THEN UpperMap[c] ELSE c

\* str.upper()
Upper(s) == [i \in 1..Len(s) |-> UpperChar(s[i])]

\* \w of the re module
WordChars == Range(LowerAlpha) \cup Range(UpperAlpha) \cup Digits \cup {"_"}

IsWordChar(c) == c \in WordChars

SetMin(S) == CHOOSE x \in S : \A y \in S : x <= y

SetMax(S) == CHOOSE x \in S : \A y \in S : x >= y

\* str.strip()
Strip(s) ==
    LET keep == {i \in 1..Len(s) : s[i] \notin Whitespace}
    IN  IF keep = {} THEN <<>> ELSE SubSeq(s, SetMin(keep), SetMax(keep))

\* str.rstrip()
RStrip(s) ==
    LET keep == {i \in 1..Len(s) : s[i] \notin Whitespace}
    IN  IF keep = {} THEN <<>> ELSE SubSeq(s, 1, SetMax(keep))

\* str.startswith(p)
StartsWith(s, p) == Len(s) >= Len(p) /\ SubSeq(s, 1, Len(p)) = p

\* str.endswith(p)
EndsWith(s, p) == Len(s) >= Len(p) /\ SubSeq(s, Len(s) - Len(p) + 1, Len(s)) = p

\* p in s
Contains(s, p) ==
    \E i \in 1..(Len(s) - Len(p) + 1) : SubSeq(s, i, i + Len(p) - 1) = p

\* str.split()[0]: the first whitespace-delimited token of a stripped string
FirstToken(s) ==
    LET ws == {i \in 1..Len(s) : s[i] \in Whitespace}
    IN  IF ws = {} THEN s ELSE SubSeq(s, 1, SetMin(ws) - 1)

----------------------------------------------------------------------------
(* DatabaseProvider                                                        *)

ConnectionMode_rw == "rw"

\* sqlite3.connect(f"file:{resolved}?mode=ro", uri=True)
ConnectionMode == "ro"

----------------------------------------------------------------------------
(* QueryExecutor                                                           *)

SELECT == <<"S","E","L","E","C","T">>

_BLOCKED_KEYWORDS ==
    << <<"I","N","S","E","R","T">>,
       <<"U","P","D","A","T","E">>,
       <<"D","E","L","E","T","E">>,
       <<"D","R","O","P">>,
       <<"A","L","T","E","R">>,
       <<"C","R","E","A","T","E">>,
       <<"A","T","T","A","C","H">>,
       <<"D","E","T","A","C","H">>,
       <<"P","R","A","G","M","A">>,
       <<"G","R","A","N","T">>,
       <<"R","E","V","O","K","E">> >>

MatchesAt_case_sensitive(s, up, i, kw) ==
    /\ i + Len(kw) - 1 <= Len(s)
    /\ SubSeq(s, i, i + Len(kw) - 1) = kw
    /\ (i = 1 \/ ~IsWordChar(s[i - 1]))
    /\ (i + Len(kw) - 1 = Len(s) \/ ~IsWordChar(s[i + Len(kw)]))

\* \b(KEYWORD)\b with re.IGNORECASE matches at position i of s (up is s in upper case)
MatchesAt(s, up, i, kw) ==
    /\ i + Len(kw) - 1 <= Len(s)
    /\ SubSeq(up, i, i + Len(kw) - 1) = kw
    /\ (i = 1 \/ ~IsWordChar(s[i - 1]))
    /\ (i + Len(kw) - 1 = Len(s) \/ ~IsWordChar(s[i + Len(kw)]))

\* _BLOCKED_PATTERN.search(s): the leftmost match, as match.group(), or no match
_BLOCKED_PATTERN_search(s) ==
    LET up == Upper(s)
        hits == {i \in 1..Len(s) :
                    \E n \in DOMAIN _BLOCKED_KEYWORDS : MatchesAt(s, up, i, _BLOCKED_KEYWORDS[n])}
    IN  IF hits = {}
        THEN [found |-> FALSE, group |-> <<>>]
        ELSE LET i == SetMin(hits)
                 n == CHOOSE n \in DOMAIN _BLOCKED_KEYWORDS :
                          MatchesAt(s, up, i, _BLOCKED_KEYWORDS[n])
             IN  [found |-> TRUE, group |-> SubSeq(s, i, i + Len(_BLOCKED_KEYWORDS[n]) - 1)]

Passed == [ok |-> TRUE, msg |-> "", detail |-> <<>>]

ValueError(msg, detail) == [ok |-> FALSE, msg |-> msg, detail |-> detail]

\* 1. not query or not query.strip()
IsEmptyQuery(query) == query = <<>> \/ Strip(query) = <<>>

StartsWithSelect_contains(stripped) == Contains(Upper(stripped), SELECT)

\* 2. stripped.upper().startswith("SELECT")
StartsWithSelect(stripped) == StartsWith(Upper(stripped), SELECT)

\* 3. ";" in stripped
HasSemicolon(stripped) == Contains(stripped, <<";">>)

HasCommentMarker_dashes_only(stripped) == Contains(stripped, <<"-","-">>)

\* 5. "--" in stripped or "/*" in stripped
HasCommentMarker(stripped) ==
    Contains(stripped, <<"-","-">>) \/ Contains(stripped, <<"/","*">>)

\* a validator that looks for semicolons before it looks for SELECT
_validate_query_semicolon_first(query) ==
    IF IsEmptyQuery(query)
    THEN ValueError("Query must not be empty or whitespace-only.", <<>>)
    ELSE LET stripped == Strip(query)
             match == _BLOCKED_PATTERN_search(stripped)
         IN  IF HasSemicolon(stripped)
             THEN ValueError("Query must not contain semicolons. Multiple statements are not allowed.",
                             <<>>)
             ELSE IF ~StartsWithSelect(stripped)
             THEN ValueError("Only SELECT queries are allowed. Received query starting with: ",
                             FirstToken(stripped))
             ELSE IF match.found
             THEN ValueError("Query contains a blocked keyword: ", match.group)
             ELSE IF HasCommentMarker(stripped)
             THEN ValueError("Query must not contain SQL comments (-- or /*).", <<>>)
             ELSE Passed

\* QueryExecutor._validate_query: Passed, or the ValueError it raises
_validate_query(query) ==
    IF IsEmptyQuery(query)
    THEN ValueError("Query must not be empty or whitespace-only.", <<>>)
    ELSE LET stripped == Strip(query)
             match == _BLOCKED_PATTERN_search(stripped)
         IN  IF ~StartsWithSelect(stripped)
             THEN ValueError("Only SELECT queries are allowed. Received query starting with: ",
                             FirstToken(stripped))
             ELSE IF HasSemicolon(stripped)
             THEN ValueError("Query must not contain semicolons. Multiple statements are not allowed.",
                             <<>>)
             ELSE IF match.found
             THEN ValueError("Query contains a blocked keyword: ", match.group)
             ELSE IF HasCommentMarker(stripped)
             THEN ValueError("Query must not contain SQL comments (-- or /*).", <<>>)
             ELSE Passed

Normalize_no_rstrip(query) ==
    LET normalized == Strip(query)
    IN  IF EndsWith(normalized, <<";">>)
        THEN SubSeq(normalized, 1, Len(normalized) - 1)
        ELSE normalized

\* execute_safe_query, lines 57-59: strip, drop one trailing ';', rstrip
Normalize(query) ==
    LET normalized == Strip(query)
    IN  IF EndsWith(normalized, <<";">>)
        THEN RStrip(SubSeq(normalized, 1, Len(normalized) - 1))
        ELSE normalized

\* what the sqlite engine does with a statement it is handed: return rows,
\* reject it (sqlite3.Error), or try to modify the stored data
EngineBehaviours == {"rows", "sqlerror", "write"}

\* QueryExecutor._execute_query on a connection opened in `mode`
_execute_query(safe_query, eng, mode) ==
    IF eng = "sqlerror"
    THEN [executed |-> TRUE, stmt |-> safe_query, exc |-> "RuntimeError",
          msg |-> "Query execution failed: ", detail |-> <<>>, rows |-> "none", wrote |-> FALSE]
    ELSE IF eng = "write" /\ mode = "ro"
    THEN [executed |-> TRUE, stmt |-> safe_query, exc |-> "RuntimeError",
          msg |-> "Query execution failed: attempt to write a readonly database",
          detail |-> <<>>, rows |-> "none", wrote |-> FALSE]
    ELSE [executed |-> TRUE, stmt |-> safe_query, exc |-> "none",
          msg |-> "", detail |-> <<>>,
          rows |-> "rows",
          wrote |-> (eng = "write")]

execute_safe_query_unvalidated(query, mode) ==
    {_execute_query(Normalize(query), eng, mode) : eng \in EngineBehaviours}

\* QueryExecutor.execute_safe_query: the outcomes one call can have, a single
\* ValueError when validation fails, else one outcome per engine behaviour
execute_safe_query(query, mode) ==
    LET normalized == Normalize(query)
        verdict == _validate_query(normalized)
    IN  IF ~verdict.ok
        THEN {[executed |-> FALSE, stmt |-> <<>>, exc |-> "ValueError",
               msg |-> verdict.msg, detail |-> verdict.detail, rows |-> "none", wrote |-> FALSE]}
        ELSE {_execute_query(normalized, eng, mode) : eng \in EngineBehaviours}

----------------------------------------------------------------------------
(* Candidate queries: concatenations of at most MaxFrags fragments          *)

Fragments ==
    { SELECT,
      <<"s","e","l","e","c","t">>,
      <<"D","r","o","p">>,
      <<" ">>, <<";">>, <<"_">>, <<"-">>, <<"/","*">> }

RECURSIVE Concats(_)
Concats(n) ==
    IF n = 0 THEN {<<>>}
    ELSE LET shorter == Concats(n - 1)
         IN  shorter \cup {s \o f : s \in shorter, f \in Fragments}

\* str.lower() of an upper-case word
Lower(s) ==
    [i \in 1..Len(s) |-> LowerAlpha[CHOOSE k \in 1..26 : UpperAlpha[k] = s[i]]]

\* every blocked keyword once as a column name and once inside a longer
\* identifier: SELECT create, SELECT created_at, ...
KeywordProbes ==
    {SELECT \o <<" ">> \o Lower(_BLOCKED_KEYWORDS[n]) \o tail :
        n \in DOMAIN _BLOCKED_KEYWORDS, tail \in {<<>>, <<"d","_","a","t">>}}

Inputs == Concats(MaxFrags) \cup KeywordProbes

\* what a caller appends when it submits an earlier query again
Suffixes == { <<";">>, <<" ", ";", " ">>, <<";", ";">> }

\* the first call is any candidate; a later call resubmits the first query with a suffix
CandidateQueries ==
    IF calls = <<>> THEN Inputs ELSE {calls[1].input \o s : s \in Suffixes}

----------------------------------------------------------------------------
(* The gate as a state machine                                             *)

GateInit ==
    /\ connMode = ConnectionMode
    /\ dbData = 0
    /\ dbLog = <<>>
    /\ calls = <<>>

\* the connection's part of one call: the statement is logged when it was
\* handed to cursor.execute, the data changes when the engine wrote
GateEffect(r) ==
    /\ dbLog' = IF r.executed THEN Append(dbLog, r.stmt) ELSE dbLog
    /\ dbData' = IF r.wrote THEN dbData + 1 ELSE dbData
    /\ UNCHANGED connMode

\* one call of execute_safe_query(query) on the shared connection
ExecuteSafeQuery ==
    /\ Len(calls) < MaxCalls
    /\ \E query \in CandidateQueries : \E r \in execute_safe_query(query, connMode) :
           /\ calls' = Append(calls, [input |-> query, result |-> r,
                                      logged |-> IF r.executed THEN Len(dbLog) + 1 ELSE 0])
           /\ GateEffect(r)
    /\ UNCHANGED <<botVars, rateVars, stub>>

----------------------------------------------------------------------------
(* chatbot/models.py: Message and its serialization                        *)

\* a python str | None value held by a message or an event
NoneContent == [kind |-> "none", text |-> <<>>, name |-> "", at |-> 0, msg |-> "", detail |-> <<>>]

Str(chars) == [kind |-> "str", text |-> chars, name |-> "", at |-> 0, msg |-> "", detail |-> <<>>]

\* a prompt text: its name and the timestamp get_system_prompt put in it
PromptStr(name, at) ==
    [kind |-> "prompt", text |-> <<>>, name |-> name, at |-> at, msg |-> "", detail |-> <<>>]

\* json.dumps({key: ...}): the text of a JSON object with the single key `name`
JsonDumps(name, msg, detail) ==
    [kind |-> "json", text |-> <<>>, name |-> name, at |-> 0, msg |-> msg, detail |-> detail]

\* json.loads(result): the keys of the object a tool result holds
JsonKeys(result) == IF result.kind = "json" THEN {result.name} ELSE {}

\* a Message whose type always follows from its role
Message_type_by_role(role, content, type, tool_call_id, raw) ==
    [role |-> role,
     content |-> content,
     type |-> IF role = "user" THEN "request"
              ELSE IF role = "system" THEN "system"
              ELSE IF role = "tool" THEN "tool"
              ELSE "output",
     tool_calls_set |-> FALSE,
     tool_calls |-> <<>>,
     tool_call_id |-> tool_call_id,
     raw_tool_calls |-> raw]

\* a Message that does not keep the requests it is given
Message_without_requests(role, content, type, tool_call_id, raw) ==
    [role |-> role,
     content |-> content,
     type |-> IF type # "" THEN type
              ELSE IF role = "user" THEN "request"
              ELSE IF role = "system" THEN "system"
              ELSE IF role = "tool" THEN "tool"
              ELSE IF role = "assistant" THEN "output"
              ELSE "",
     tool_calls_set |-> FALSE,
     tool_calls |-> <<>>,
     tool_call_id |-> tool_call_id,
     raw_tool_calls |-> <<>>]

\* Message(role, content, type, tool_call_id, _raw_tool_calls), with __post_init__
Message(role, content, type, tool_call_id, raw) ==
    [role |-> role,
     content |-> content,
     type |-> IF type # "" THEN type
              ELSE IF role = "user" THEN "request"
              ELSE IF role = "system" THEN "system"
              ELSE IF role = "tool" THEN "tool"
              ELSE IF role = "assistant" THEN "output"
              ELSE "",
     tool_calls_set |-> FALSE,
     tool_calls |-> <<>>,
     tool_call_id |-> tool_call_id,
     raw_tool_calls |-> raw]

\* tool_call_id of a message that has none
NoId == "<None>"

\* Message.to_api_dict: absent keys are kind "absent", <<>> and "<absent>"
Absent == [kind |-> "absent", text |-> <<>>, name |-> "", at |-> 0, msg |-> "", detail |-> <<>>]

to_api_dict(m) ==
    IF m.role = "tool"
    THEN [role |-> "tool",
          tool_call_id |-> m.tool_call_id,
          content |-> IF m.content.kind = "none" THEN Str(<<>>) ELSE m.content,
          tool_calls |-> <<>>]
    ELSE [role |-> m.role,
          tool_call_id |-> "<absent>",
          content |-> IF m.content.kind # "none" THEN m.content ELSE Absent,
          tool_calls |-> m.raw_tool_calls]

----------------------------------------------------------------------------
(* ChatBot: the context budgeter                                           *)

MAX_CONTEXT_TOKENS == 128000

MAX_REQUEST_TOKENS == MAX_CONTEXT_TOKENS - 5000

\* a fallback that keeps the ceiling of the first request
EMERGENCY_TOKENS_unchanged == MAX_REQUEST_TOKENS

\* max_tokens=12_000 of the second request
EMERGENCY_TOKENS == 12000

\* len(encoding.encode(value)) for a string value: one token per character
\* of a text, a fixed size for a prompt or a JSON result
PromptTokens == 4

\* the rows of a result as json.dumps writes them: a short text, a text
\* that fits the request ceiling but not the emergency ceiling, and a text
\* that fits neither
ROWS_FEW == "[[1]]"

ROWS_SOME == "[[1], [2]]"

ROWS_MANY == "[[1], [2], ...]"

\* the tokens of a result text over the emergency ceiling
SomeRowsTokens == 50000

\* the tokens of a long result text: more than any request may hold
ManyRowsTokens == 130000

EncodeLen(c) ==
    IF c.kind = "str" THEN Len(c.text)
    ELSE IF c.kind = "prompt" THEN PromptTokens
    ELSE IF c.kind = "json" /\ c.msg = ROWS_MANY THEN ManyRowsTokens
    ELSE IF c.kind = "json" /\ c.msg = ROWS_SOME THEN SomeRowsTokens
    ELSE IF c.kind = "json" THEN 2 + Len(c.detail)
    ELSE 0

RECURSIVE SumOver(_, _)
SumOver(seq, i) == IF i > Len(seq) THEN 0 ELSE seq[i] + SumOver(seq, i + 1)

\* _count_tokens_for_messages
_count_tokens_for_messages(messages) ==
    LET tokens_per_message == 3
        cost(msg) ==
            tokens_per_message
            + 1
            + (IF msg.content.kind = "absent" THEN 0 ELSE EncodeLen(msg.content))
            + (IF msg.tool_call_id \in {"<absent>", NoId} THEN 0 ELSE 1)
            + (IF msg.tool_calls = <<>> THEN 0
               ELSE SumOver([k \in 1..Len(msg.tool_calls) |->
                                4 + Len(msg.tool_calls[k].arguments)], 1))
    IN  SumOver([k \in 1..Len(messages) |-> cost(messages[k])], 1) + 3

\* a split that makes every message a turn of its own
SplitTurns_per_message(rest, i, turnsAcc, current_turn) ==
    [k \in 1..Len(rest) |-> <<rest[k]>>]

\* the turns of rest: each starts at a user message and runs to the next one
RECURSIVE SplitTurns(_, _, _, _)
SplitTurns(rest, i, turnsAcc, current_turn) ==
    IF i > Len(rest)
    THEN IF current_turn # <<>> THEN Append(turnsAcc, current_turn) ELSE turnsAcc
    ELSE IF rest[i].role = "user"
    THEN SplitTurns(rest, i + 1,
                    IF current_turn # <<>> THEN Append(turnsAcc, current_turn) ELSE turnsAcc,
                    <<rest[i]>>)
    ELSE SplitTurns(rest, i + 1, turnsAcc, Append(current_turn, rest[i]))

\* the serialization with the tool messages left out
ApiDicts_no_tool(ms) ==
    LET kept == SelectSeq(ms, LAMBDA m : m.role # "tool")
    IN  [k \in 1..Len(kept) |-> to_api_dict(kept[k])]

\* [x.to_api_dict() for x in candidate]
ApiDicts(ms) == [k \in 1..Len(ms) |-> to_api_dict(ms[k])]

\* a selection that looks at the newest turn only
SelectTail_newest_only(turnList, k, tail, system_msg, max_tokens) ==
    IF k = 0 THEN tail
    ELSE IF _count_tokens_for_messages(<<system_msg>> \o ApiDicts(turnList[k])) <= max_tokens
    THEN turnList[k]
    ELSE tail

\* for turn in reversed(turns): keep the candidate while it fits
RECURSIVE SelectTail(_, _, _, _, _)
SelectTail(turnList, k, tail, system_msg, max_tokens) ==
    IF k = 0 THEN tail
    ELSE LET candidate == turnList[k] \o tail
             msgs == <<system_msg>> \o ApiDicts(candidate)
         IN  IF _count_tokens_for_messages(msgs) <= max_tokens
             THEN SelectTail(turnList, k - 1, candidate, system_msg, max_tokens)
             ELSE tail

\* a budgeter that returns nothing when the system message alone is over
\* the ceiling
_build_api_messages_within_ceiling(messages, system_content, max_tokens) ==
    LET system_msg == [role |-> "system", tool_call_id |-> "<absent>",
                       content |-> system_content, tool_calls |-> <<>>]
        rest == SubSeq(messages, 2, Len(messages))
        turnList == SplitTurns(rest, 1, <<>>, <<>>)
        tail == SelectTail(turnList, Len(turnList), <<>>, system_msg, max_tokens)
    IN  IF _count_tokens_for_messages(<<system_msg>>) > max_tokens
        THEN <<>>
        ELSE <<system_msg>> \o ApiDicts(tail)

\* ChatBot._build_api_messages
_build_api_messages(messages, system_content, max_tokens) ==
    LET system_msg == [role |-> "system", tool_call_id |-> "<absent>",
                       content |-> system_content, tool_calls |-> <<>>]
        rest == SubSeq(messages, 2, Len(messages))
        turnList == SplitTurns(rest, 1, <<>>, <<>>)
        tail == SelectTail(turnList, Len(turnList), <<>>, system_msg, max_tokens)
    IN  <<system_msg>> \o ApiDicts(tail)

----------------------------------------------------------------------------
(* The model capability: what the provider can answer and stream           *)

\* client.chat.completions.create: a stream, a BadRequestError naming
\* context_length_exceeded, another BadRequestError, or any other API error
ProviderResponses == {"stream", "context_length_exceeded", "bad_request", "api_error"}

\* fragments of the JSON text of a tool call's arguments
OPENQ == "{\"query\": \""

CLOSEQ == "\"}"

QSEL == "SELECT 1"

QDROP == "DROP TABLE zones"

EMPTYOBJ == "{}"

ARR == "[]"

NUMQ == "{\"query\": 5}"

QueryTexts == {QSEL, QDROP}

\* the characters of a query text
QueryChars(tok) ==
    IF tok = QSEL THEN SELECT \o <<" ", "1">>
    ELSE <<"D","R","O","P"," ","T","A","B","L","E"," ","z","o","n","e","s">>

RECURSIVE Flatten(_, _)
Flatten(toks, i) ==
    IF i > Len(toks) THEN <<>> ELSE QueryChars(toks[i]) \o Flatten(toks, i + 1)

\* the value of args.get("query", ""): a str, or a JSON value that is no str
QueryStr(chars) == [isstr |-> TRUE, chars |-> chars]

QueryNotStr == [isstr |-> FALSE, chars |-> <<>>]

\* json.loads(arguments): a dict with a str query, a dict with a non-str
\* query, a dict without query, a list, or JSONDecodeError
json_loads(arguments) ==
    LET n == Len(arguments)
    IN  IF n >= 2 /\ arguments[1] = OPENQ /\ arguments[n] = CLOSEQ
           /\ \A k \in 2..(n - 1) : arguments[k] \in QueryTexts
        THEN [ok |-> TRUE, kind |-> "dict", has_query |-> TRUE,
              query |-> QueryStr(Flatten(SubSeq(arguments, 2, n - 1), 1))]
        ELSE IF arguments = <<NUMQ>>
        THEN [ok |-> TRUE, kind |-> "dict", has_query |-> TRUE, query |-> QueryNotStr]
        ELSE IF arguments = <<EMPTYOBJ>>
        THEN [ok |-> TRUE, kind |-> "dict", has_query |-> FALSE, query |-> QueryStr(<<>>)]
        ELSE IF arguments = <<ARR>>
        THEN [ok |-> TRUE, kind |-> "list", has_query |-> FALSE, query |-> QueryStr(<<>>)]
        ELSE [ok |-> FALSE, kind |-> "", has_query |-> FALSE, query |-> QueryStr(<<>>)]

\* one tool-call fragment of a stream delta
ToolCallDelta(index, id, name, arguments) ==
    [index |-> index, id |-> id, has_function |-> TRUE, name |-> name, arguments |-> arguments]

\* a stream delta: delta.content and delta.tool_calls
ContentDelta(chars) == [content |-> chars, tool_calls |-> <<>>]

ToolDelta(index, id, name, arguments) ==
    [content |-> <<>>, tool_calls |-> <<ToolCallDelta(index, id, name, arguments)>>]

\* the deltas the provider may send
Deltas ==
    { ContentDelta(<<"o", "k">>),
      ContentDelta(<<" ">>),
      ToolDelta(0, "call_a", "execute_sql_query", <<OPENQ, QSEL, CLOSEQ>>),
      ToolDelta(0, "call_a", "execute_sql_query", <<OPENQ, QDROP, CLOSEQ>>),
      ToolDelta(0, "call_a", "execute_sql_query", <<OPENQ, QSEL>>),
      ToolDelta(0, "", "", <<CLOSEQ>>),
      ToolDelta(0, "call_a", "execute_sql_query", <<EMPTYOBJ>>),
      ToolDelta(0, "call_a", "execute_sql_query", <<ARR>>),
      ToolDelta(0, "call_a", "execute_sql_query", <<NUMQ>>),
      ToolDelta(0, "call_a", "get_weather", <<EMPTYOBJ>>),
      ToolDelta(0, "call_a", "get_weather", <<>>),
      ToolDelta(1, "call_b", "execute_sql_query", <<OPENQ, QSEL, CLOSEQ>>),
      ToolDelta(1, "call_b", "execute_sql_query", <<OPENQ, QDROP, CLOSEQ>>),
      ToolDelta(1, "call_a", "get_weather", <<EMPTYOBJ>>),
      ToolDelta(1, "", "get_weather", <<EMPTYOBJ>>) }

----------------------------------------------------------------------------
(* ChatBot                                                                 *)

_CONTEXT_LENGTH_MSG == "Conversation is too long. Please start a new conversation."

\* get_system_prompt(): the prompt text stamped with the current time
get_system_prompt(t) == PromptStr("system", t)

\* get_system_prompt() + "\n\n" + get_reasoning_prompt()
ReasoningSystem(t) == PromptStr("system+reasoning", t)

\* get_system_prompt() + "\n\n" + get_interpretation_prompt()
InterpretSystem(t) == PromptStr("system+interpret", t)

RetrySystem == PromptStr("One or more tool calls failed. Please retry.", 0)

\* conversation_id values a caller passes: None, or an id not in the store
NoneId == 0

UnknownId == -1

EmptyAcc == [idx \in {} |-> 0]

NoQuery == QueryStr(<<>>)

\* the generator's locals when no turn is running; at_yield tells whether
\* the generator is suspended at a yield, having handed an event to its caller
IdleGen ==
    [pc |-> "idle", conv |-> NoneId,
     reasoning_system |-> NoneContent, interpret_system |-> NoneContent,
     api_messages |-> <<>>, content_parts |-> <<>>, tool_calls_acc |-> EmptyAcc,
     raw_tool_calls |-> <<>>, assistant_at |-> 0, tool_call_records |-> <<>>,
     any_failed |-> FALSE, i |-> 0, sql_query |-> NoQuery, result |-> NoneContent,
     success |-> FALSE, last_reasoning_content |-> <<>>, at_yield |-> FALSE]

\* no second request is in flight
NoParked ==
    [gen |-> IdleGen, events |-> <<>>, outcome |-> "none", phases |-> <<>>,
     deltas |-> 0, turns |-> 0]

\* ChatBot.__init__
BotInit ==
    /\ conversations = [id \in {} |-> <<>>]
    /\ now = 0
    /\ gen = IdleGen
    /\ events = <<>>
    /\ outcome = "none"
    /\ phases = <<>>
    /\ deltas = 0
    /\ turns = 0
    /\ parked = NoParked

\* an id generator that hands out an id a stored conversation already has
NewConversationId_reused ==
    IF DOMAIN conversations = {} THEN Cardinality(DOMAIN conversations) + 1
    ELSE CHOOSE id \in DOMAIN conversations : TRUE

\* Conversation(): uuid4 gives an id no stored conversation has
NewConversationId == Cardinality(DOMAIN conversations) + 1

\* a create_conversation that does not seed the system message
WithNewConversation_unseeded(t) ==
    [id \in DOMAIN conversations \cup {NewConversationId} |->
        IF id \in DOMAIN conversations THEN conversations[id] ELSE <<>>]

\* the store after create_conversation at time t
WithNewConversation(t) ==
    [id \in DOMAIN conversations \cup {NewConversationId} |->
        IF id \in DOMAIN conversations THEN conversations[id]
        ELSE <<Message("system", get_system_prompt(t), "system", NoId, <<>>)>>]

\* ChatBot.create_conversation, called by a client between turns
CreateConversation ==
    /\ gen.pc = "idle"
    /\ Cardinality(DOMAIN conversations) < MaxConvs
    /\ conversations' = WithNewConversation(now)
    /\ UNCHANGED <<now, gen, events, outcome, phases, deltas, turns, parked, rateVars, stub, gateVars>>

\* a refresh that also retags the system message
_refresh_system_prompt_retag(messages, t) ==
    IF messages # <<>> /\ messages[1].role = "system"
    THEN [messages EXCEPT ![1].content = get_system_prompt(t), ![1].type = "output"]
    ELSE messages

\* ChatBot._refresh_system_prompt
_refresh_system_prompt(messages, t) ==
    IF messages # <<>> /\ messages[1].role = "system"
    THEN [messages EXCEPT ![1].content = get_system_prompt(t)]
    ELSE messages

\* an add_message that appends the message twice
add_message_twice(messages, message) == Append(Append(messages, message), message)

\* Conversation.add_message
add_message(messages, message) == Append(messages, message)

Event_status == [type |-> "status", status |-> "thinking"]

\* a resolution that makes a new conversation whatever the id
ResolveConversation_always_new(conversation_id, t) ==
    [store |-> WithNewConversation(t), id |-> NewConversationId]

\* lines 135-137: self._conversations.get(conversation_id or ""), and
\* create_conversation when that finds nothing
ResolveConversation(conversation_id, t) ==
    IF conversation_id \in DOMAIN conversations
    THEN [store |-> conversations, id |-> conversation_id]
    ELSE [store |-> WithNewConversation(t), id |-> NewConversationId]

USER_MESSAGE == Str(<<"h", "i">>)

\* _process_message_events up to its first yield: resolve or create the
\* conversation, refresh the system prompt, append the user message, build
\* the request, yield status
StartTurn(conversation_id) ==
    /\ gen.pc = "idle"
    /\ turns < MaxTurns
    /\ conversation_id \in DOMAIN conversations
          \/ Cardinality(DOMAIN conversations) < MaxConvs
    /\ \E t \in {now, now + 1} :
        LET store == ResolveConversation(conversation_id, t).store
            id == ResolveConversation(conversation_id, t).id
            msgs == add_message(_refresh_system_prompt(store[id], t),
                                Message("user", USER_MESSAGE, "request", NoId, <<>>))
        IN  /\ now' = t
            /\ conversations' = [store EXCEPT ![id] = msgs]
            /\ gen' = [IdleGen EXCEPT
                         !.pc = "request",
                         !.at_yield = TRUE,
                         !.conv = id,
                         !.reasoning_system = ReasoningSystem(t),
                         !.api_messages =
                             _build_api_messages(msgs, ReasoningSystem(t), MAX_REQUEST_TOKENS)]
    /\ events' = <<Event_status>>
    /\ outcome' = "none"
    /\ phases' = <<"REASONING">>
    /\ turns' = turns + 1
    /\ UNCHANGED <<deltas, parked, rateVars, stub, gateVars>>

\* an exception leaves the generator: the turn is over
Raise(e) ==
    /\ gen' = IdleGen
    /\ outcome' = e
    /\ phases' = Append(phases, "FAILED")

\* lines 156-165: the reasoning request; a context-length rejection rebuilds
\* the messages under the emergency ceiling
ReasoningRequest ==
    /\ gen.pc = "request"
    /\ \E resp \in ProviderResponses :
          \/ /\ resp = "stream"
             /\ gen' = [gen EXCEPT !.pc = "stream", !.at_yield = FALSE,
                                   !.content_parts = <<>>,
                                   !.tool_calls_acc = EmptyAcc]
             /\ UNCHANGED <<outcome, phases>>
          \/ /\ resp = "context_length_exceeded"
             /\ gen' = [gen EXCEPT
                          !.pc = "request2",
                          !.at_yield = FALSE,
                          !.api_messages =
                              _build_api_messages(conversations[gen.conv],
                                                  gen.reasoning_system, EMERGENCY_TOKENS)]
             /\ UNCHANGED <<outcome, phases>>
          \/ /\ resp = "bad_request"
             /\ Raise("BadRequestError")
          \/ /\ resp = "api_error"
             /\ Raise("APIError")
    /\ UNCHANGED <<conversations, now, events, deltas, turns, parked, rateVars, stub, gateVars>>

\* lines 169-179: the second reasoning request, under the emergency ceiling
ReasoningRequestRetry ==
    /\ gen.pc = "request2"
    /\ \E resp \in ProviderResponses :
          \/ /\ resp = "stream"
             /\ gen' = [gen EXCEPT !.pc = "stream", !.at_yield = FALSE,
                                   !.content_parts = <<>>,
                                   !.tool_calls_acc = EmptyAcc]
             /\ UNCHANGED <<outcome, phases>>
          \/ /\ resp = "context_length_exceeded"
             /\ Raise(_CONTEXT_LENGTH_MSG)
          \/ /\ resp = "bad_request"
             /\ Raise("BadRequestError")
          \/ /\ resp = "api_error"
             /\ Raise("APIError")
    /\ UNCHANGED <<conversations, now, events, deltas, turns, parked, rateVars, stub, gateVars>>

\* an accumulator that keeps only the newest arguments fragment
AccumulateToolCall_overwrite(acc, tc_delta) ==
    LET idx == tc_delta.index
        old == IF idx \in DOMAIN acc THEN acc[idx]
               ELSE [id |-> "", name |-> "", arguments |-> <<>>]
        new == [id |-> IF tc_delta.id # "" THEN tc_delta.id ELSE old.id,
                name |-> IF tc_delta.has_function /\ tc_delta.name # ""
                         THEN tc_delta.name ELSE old.name,
                arguments |-> IF tc_delta.has_function /\ tc_delta.arguments # <<>>
                              THEN tc_delta.arguments
                              ELSE old.arguments]
    IN  [k \in DOMAIN acc \cup {idx} |-> IF k = idx THEN new ELSE acc[k]]

\* lines 188-210: one chunk of the reasoning stream folded into the locals
AccumulateToolCall(acc, tc_delta) ==
    LET idx == tc_delta.index
        old == IF idx \in DOMAIN acc THEN acc[idx]
               ELSE [id |-> "", name |-> "", arguments |-> <<>>]
        new == [id |-> IF tc_delta.id # "" THEN tc_delta.id ELSE old.id,
                name |-> IF tc_delta.has_function /\ tc_delta.name # ""
                         THEN tc_delta.name ELSE old.name,
                arguments |-> IF tc_delta.has_function
                              THEN old.arguments \o tc_delta.arguments
                              ELSE old.arguments]
    IN  [k \in DOMAIN acc \cup {idx} |-> IF k = idx THEN new ELSE acc[k]]

RECURSIVE AccumulateAll(_, _, _)
AccumulateAll(acc, tcs, k) ==
    IF k > Len(tcs) THEN acc ELSE AccumulateAll(AccumulateToolCall(acc, tcs[k]), tcs, k + 1)

\* a join that keeps the first part only
Join_first_only(parts, k) == IF parts = <<>> THEN <<>> ELSE parts[1]

\* "".join(content_parts)
RECURSIVE Join(_, _)
Join(parts, k) == IF k > Len(parts) THEN <<>> ELSE parts[k] \o Join(parts, k + 1)

\* for chunk in stream (reasoning): the provider sends one more delta
StreamChunk ==
    /\ gen.pc = "stream"
    /\ deltas < MaxDeltas
    /\ \E delta \in Deltas :
          /\ gen' = [gen EXCEPT
                       !.at_yield = delta.content # <<>>,
                       !.content_parts = IF delta.content # <<>>
                                         THEN Append(@, delta.content) ELSE @,
                       !.tool_calls_acc = AccumulateAll(@, delta.tool_calls, 1)]
          /\ events' = IF delta.content # <<>>
                       THEN Append(events, [type |-> "reasoning_token", token |-> delta.content])
                       ELSE events
    /\ deltas' = deltas + 1
    /\ UNCHANGED <<conversations, now, outcome, phases, turns, parked, rateVars, stub, gateVars>>

\* the stream breaks while it is iterated
StreamError ==
    /\ gen.pc \in {"stream", "istream"}
    /\ Raise("APIError")
    /\ UNCHANGED <<conversations, now, events, deltas, turns, parked, rateVars, stub, gateVars>>

\* the indexes from the largest to the smallest
RECURSIVE SortedIdx_descending(_)
SortedIdx_descending(S) ==
    IF S = {} THEN <<>> ELSE <<SetMax(S)>> \o SortedIdx_descending(S \ {SetMax(S)})

\* sorted(tool_calls_acc)
RECURSIVE SortedIdx(_)
SortedIdx(S) == IF S = {} THEN <<>> ELSE <<SetMin(S)>> \o SortedIdx(S \ {SetMin(S)})

\* lines 228-240
RawToolCalls(acc) ==
    LET order == SortedIdx(DOMAIN acc)
    IN  [k \in 1..Len(order) |-> acc[order[k]]]

\* no placeholder at all
PLACEHOLDER_empty == <<>>

\* the placeholder text of line 251, as one symbol
PLACEHOLDER == <<"(Planning step - no model text.)">>

\* lines 212-252: the reasoning stream is exhausted
StreamEnd ==
    /\ gen.pc = "stream"
    /\ LET joined == Join(gen.content_parts, 1)
           full_content == IF joined # <<>> THEN Str(joined) ELSE NoneContent
       IN  IF gen.tool_calls_acc = EmptyAcc
           THEN /\ conversations' =
                     [conversations EXCEPT ![gen.conv] =
                         add_message(@, Message("assistant", full_content, "output", NoId, <<>>))]
                /\ events' = Append(events, [type |-> "done", conversation_id |-> gen.conv,
                                             response |-> joined])
                /\ gen' = IdleGen
                /\ outcome' = "done"
                /\ phases' = Append(phases, "DONE")
           ELSE LET raw_tool_calls == RawToolCalls(gen.tool_calls_acc)
                    last_reasoning_content ==
                        IF Strip(joined) # <<>> THEN Strip(joined) ELSE PLACEHOLDER
                IN  /\ conversations' =
                         [conversations EXCEPT ![gen.conv] =
                             add_message(@, Message("assistant", full_content, "reasoning",
                                                    NoId, raw_tool_calls))]
                    /\ events' = Append(events, [type |-> "reasoning",
                                                 content |-> last_reasoning_content])
                    /\ gen' = [gen EXCEPT
                                 !.pc = "tool_parse",
                                 !.at_yield = TRUE,
                                 !.raw_tool_calls = raw_tool_calls,
                                 !.assistant_at = Len(conversations[gen.conv]) + 1,
                                 !.last_reasoning_content = last_reasoning_content,
                                 !.tool_call_records = <<>>,
                                 !.any_failed = FALSE,
                                 !.i = 1]
                    /\ outcome' = outcome
                    /\ phases' = Append(phases, "EXECUTING_TOOLS")
    /\ UNCHANGED <<now, deltas, turns, parked, rateVars, stub, gateVars>>

\* lines 257-260: parse the arguments, read the query, yield tool_call
ToolParse ==
    /\ gen.pc = "tool_parse"
    /\ LET raw_tc == gen.raw_tool_calls[gen.i]
           args == json_loads(raw_tc.arguments)
       IN  IF ~args.ok
           THEN Raise("JSONDecodeError") /\ UNCHANGED events
           ELSE IF args.kind # "dict"
           THEN Raise("AttributeError") /\ UNCHANGED events
           ELSE /\ gen' = [gen EXCEPT !.pc = "tool_exec",
                                      !.at_yield = TRUE,
                                      !.sql_query = IF args.has_query THEN args.query
                                                    ELSE QueryStr(<<>>)]
                /\ events' = Append(events, [type |-> "tool_call",
                                             query |-> gen'.sql_query])
                /\ UNCHANGED <<outcome, phases>>
    /\ UNCHANGED <<conversations, now, deltas, turns, parked, rateVars, stub, gateVars>>

NoGateResult ==
    [executed |-> FALSE, stmt |-> <<>>, exc |-> "none",
     msg |-> "", detail |-> <<>>, rows |-> "none", wrote |-> FALSE]

ToolOutcome(exc, result, gate_called, r) ==
    [exc |-> exc, result |-> result, gate_called |-> gate_called, r |-> r]

\* json.dumps({"results": [list(row) for row in rows]}): the text, or
\* TypeError when a row holds a value json cannot serialize (a BLOB)
DumpResults(r) ==
    {ToolOutcome("none", JsonDumps("results", ROWS_FEW, <<>>), TRUE, r),
     ToolOutcome("none", JsonDumps("results", ROWS_SOME, <<>>), TRUE, r),
     ToolOutcome("none", JsonDumps("results", ROWS_MANY, <<>>), TRUE, r),
     ToolOutcome("TypeError", NoneContent, TRUE, r)}

\* _execute_tool without its except clause: the gate's exception leaves it
_execute_tool_uncaught(function_name, arguments, mode) ==
    IF function_name # "execute_sql_query"
    THEN {ToolOutcome("none", JsonDumps("error", "Unknown tool: ", <<function_name>>),
                      FALSE, NoGateResult)}
    ELSE LET args == json_loads(arguments)
         IN  IF ~args.ok
             THEN {ToolOutcome("JSONDecodeError", NoneContent, FALSE, NoGateResult)}
             ELSE IF args.kind # "dict"
             THEN {ToolOutcome("TypeError", NoneContent, FALSE, NoGateResult)}
             ELSE IF ~args.has_query
             THEN {ToolOutcome("KeyError", NoneContent, FALSE, NoGateResult)}
             ELSE IF ~args.query.isstr
             THEN {ToolOutcome("AttributeError", NoneContent, FALSE, NoGateResult)}
             ELSE UNION { IF r.exc # "none"
                          THEN {ToolOutcome(r.exc, NoneContent, TRUE, r)}
                          ELSE DumpResults(r)
                          : r \in execute_safe_query(args.query.chars, mode) }

\* ChatBot._execute_tool: the outcomes one call can have
_execute_tool(function_name, arguments, mode) ==
    IF function_name # "execute_sql_query"
    THEN {ToolOutcome("none", JsonDumps("error", "Unknown tool: ", <<function_name>>),
                      FALSE, NoGateResult)}
    ELSE LET args == json_loads(arguments)
         IN  IF ~args.ok
             THEN {ToolOutcome("none", JsonDumps("error", "JSONDecodeError", <<>>),
                               FALSE, NoGateResult)}
             ELSE IF args.kind # "dict"
             THEN {ToolOutcome("TypeError", NoneContent, FALSE, NoGateResult)}
             ELSE IF ~args.has_query
             THEN {ToolOutcome("KeyError", NoneContent, FALSE, NoGateResult)}
             ELSE IF ~args.query.isstr
             THEN {ToolOutcome("AttributeError", NoneContent, FALSE, NoGateResult)}
             ELSE UNION { IF r.exc # "none"
                          THEN {ToolOutcome("none", JsonDumps("error", r.msg, r.detail), TRUE, r)}
                          ELSE DumpResults(r)
                          : r \in execute_safe_query(args.query.chars, mode) }

\* the gate's and the connection's part of one tool call
ToolGateEffect(query, o) ==
    IF o.gate_called
    THEN /\ calls' = Append(calls, [input |-> query, result |-> o.r,
                                    logged |-> IF o.r.executed THEN Len(dbLog) + 1 ELSE 0])
         /\ GateEffect(o.r)
    ELSE UNCHANGED gateVars

\* a round that never counts as failed
AnyFailed_never(any_failed, success) == FALSE

\* any_failed keeps the last call's verdict only
AnyFailed_last_only(any_failed, success) == ~success

\* lines 268-269: if not success: any_failed = True
AnyFailed(any_failed, success) == IF ~success THEN TRUE ELSE any_failed

\* lines 262-275: execute the tool, derive success, yield tool_result
ToolExecute ==
    /\ gen.pc = "tool_exec"
    /\ LET raw_tc == gen.raw_tool_calls[gen.i]
       IN  \E o \in _execute_tool(raw_tc.name, raw_tc.arguments, connMode) :
              /\ ToolGateEffect(gen.sql_query.chars, o)
              /\ IF o.exc # "none"
                 THEN Raise(o.exc) /\ UNCHANGED events
                 ELSE LET success == "error" \notin JsonKeys(o.result)
                      IN  /\ gen' = [gen EXCEPT
                                       !.pc = "tool_append",
                                       !.at_yield = TRUE,
                                       !.result = o.result,
                                       !.success = success,
                                       !.any_failed = AnyFailed(@, success)]
                          /\ events' = Append(events,
                                 [type |-> "tool_result", query |-> gen.sql_query,
                                  success |-> success, result |-> o.result])
                          /\ UNCHANGED <<outcome, phases>>
    /\ UNCHANGED <<conversations, now, deltas, turns, parked, rateVars, stub>>

\* lines 277-287: record the call and append the tool message
ToolAppend ==
    /\ gen.pc = "tool_append"
    /\ LET raw_tc == gen.raw_tool_calls[gen.i]
       IN  /\ conversations' =
                [conversations EXCEPT ![gen.conv] =
                    add_message(@, Message("tool", gen.result, "tool", raw_tc.id, <<>>))]
           /\ gen' = [gen EXCEPT
                        !.tool_call_records =
                            Append(@, [query |-> gen.sql_query, response |-> gen.result]),
                        !.i = @ + 1,
                        !.at_yield = FALSE,
                        !.pc = IF gen.i < Len(gen.raw_tool_calls)
                               THEN "tool_parse" ELSE "round_end"]
    /\ UNCHANGED <<now, events, outcome, phases, deltas, turns, parked, rateVars, stub, gateVars>>

\* lines 289-308: attach the records; retry when a call failed, else go on
\* to the interpretation request
RoundEnd ==
    /\ gen.pc = "round_end"
    /\ LET msgs == [conversations[gen.conv] EXCEPT
                       ![gen.assistant_at].tool_calls = gen.tool_call_records,
                       ![gen.assistant_at].tool_calls_set = TRUE]
       IN  /\ conversations' = [conversations EXCEPT ![gen.conv] = msgs]
           /\ IF gen.any_failed
              THEN /\ gen' = [gen EXCEPT
                                !.pc = "request",
                                !.at_yield = TRUE,
                                !.api_messages =
                                    _build_api_messages(msgs, RetrySystem, MAX_REQUEST_TOKENS)]
                   /\ phases' = phases \o <<"RETRY_REASONING", "REASONING">>
              ELSE /\ gen' = [gen EXCEPT
                                !.pc = "irequest",
                                !.at_yield = TRUE,
                                !.interpret_system = InterpretSystem(now),
                                !.api_messages =
                                    _build_api_messages(msgs, InterpretSystem(now),
                                                        MAX_REQUEST_TOKENS)]
                   /\ phases' = Append(phases, "INTERPRETING")
    /\ events' = Append(events, Event_status)
    /\ UNCHANGED <<now, outcome, deltas, turns, parked, rateVars, stub, gateVars>>

\* lines 310-319: the interpretation request
InterpretRequest ==
    /\ gen.pc = "irequest"
    /\ \E resp \in ProviderResponses :
          \/ /\ resp = "stream"
             /\ gen' = [gen EXCEPT !.pc = "istream", !.at_yield = FALSE,
                                   !.content_parts = <<>>]
             /\ UNCHANGED <<outcome, phases>>
          \/ /\ resp = "context_length_exceeded"
             /\ gen' = [gen EXCEPT
                          !.pc = "irequest2",
                          !.at_yield = FALSE,
                          !.api_messages =
                              _build_api_messages(conversations[gen.conv],
                                                  gen.interpret_system, EMERGENCY_TOKENS)]
             /\ UNCHANGED <<outcome, phases>>
          \/ /\ resp = "bad_request"
             /\ Raise("BadRequestError")
          \/ /\ resp = "api_error"
             /\ Raise("APIError")
    /\ UNCHANGED <<conversations, now, events, deltas, turns, parked, rateVars, stub, gateVars>>

\* lines 320-333: the second interpretation request
InterpretRequestRetry ==
    /\ gen.pc = "irequest2"
    /\ \E resp \in ProviderResponses :
          \/ /\ resp = "stream"
             /\ gen' = [gen EXCEPT !.pc = "istream", !.at_yield = FALSE,
                                   !.content_parts = <<>>]
             /\ UNCHANGED <<outcome, phases>>
          \/ /\ resp = "context_length_exceeded"
             /\ Raise(_CONTEXT_LENGTH_MSG)
          \/ /\ resp = "bad_request"
             /\ Raise("BadRequestError")
          \/ /\ resp = "api_error"
             /\ Raise("APIError")
    /\ UNCHANGED <<conversations, now, events, deltas, turns, parked, rateVars, stub, gateVars>>

\* lines 336-341: one chunk of the interpretation stream; tool calls in it
\* are not read
InterpretChunk ==
    /\ gen.pc = "istream"
    /\ deltas < MaxDeltas
    /\ \E delta \in Deltas :
          /\ gen' = [gen EXCEPT
                       !.at_yield = delta.content # <<>>,
                       !.content_parts = IF delta.content # <<>>
                                         THEN Append(@, delta.content) ELSE @]
          /\ events' = IF delta.content # <<>>
                       THEN Append(events, [type |-> "token", token |-> delta.content])
                       ELSE events
    /\ deltas' = deltas + 1
    /\ UNCHANGED <<conversations, now, outcome, phases, turns, parked, rateVars, stub, gateVars>>

\* lines 343-353: the interpretation stream is exhausted
InterpretEnd ==
    /\ gen.pc = "istream"
    /\ LET interpret_content == Join(gen.content_parts, 1)
       IN  /\ conversations' =
                [conversations EXCEPT ![gen.conv] =
                    add_message(@, Message("assistant", Str(interpret_content),
                                           "interpret", NoId, <<>>))]
           /\ events' = Append(events, [type |-> "done", conversation_id |-> gen.conv,
                                        response |-> interpret_content])
    /\ gen' = IdleGen
    /\ outcome' = "done"
    /\ phases' = Append(phases, "DONE")
    /\ UNCHANGED <<now, deltas, turns, parked, rateVars, stub, gateVars>>

----------------------------------------------------------------------------
(* The callers of the generator: the streaming route and process_message   *)

\* what the generator has done for its caller so far: nothing final, a
\* done event, or an exception
Exceptions == {"APIError", "BadRequestError", _CONTEXT_LENGTH_MSG,
               "JSONDecodeError", "AttributeError", "KeyError", "TypeError"}

\* an _event_generator without its except clause
_event_generator_uncaught(yielded, exc) == yielded

\* an _event_generator that ends every stream with an error event
_event_generator_always_error(yielded, exc) ==
    Append(yielded, [type |-> "error", message |-> exc])

\* routes.py chat_stream._event_generator: the events sent to the client
\* when the generator has yielded `yielded` and ended as `exc` tells; the
\* event's message is str(exc)
_event_generator(yielded, exc) ==
    IF exc \in Exceptions
    THEN Append(yielded, [type |-> "error", message |-> exc])
    ELSE yielded

\* the result of process_message: how it ended, the pair it returned, the
\* arguments on_tool_call was called with, and the events it took from the
\* generator
Returned(how, conversation_id, response, callbacks, consumed) ==
    [how |-> how, conversation_id |-> conversation_id, response |-> response,
     callbacks |-> callbacks, consumed |-> consumed]

\* a loop that calls on_tool_call for the first tool_call event only
ConsumeEvents_first_call_only(yielded, k, callbacks, on_tool_call) ==
    LET dones == {j \in DOMAIN yielded : yielded[j].type = "done"}
        tcs == {j \in DOMAIN yielded : yielded[j].type = "tool_call"}
        cbs == IF tcs = {} THEN <<>> ELSE <<yielded[SetMin(tcs)].query>>
    IN  IF dones = {}
        THEN Returned("exhausted", NoneId, <<>>, cbs, Len(yielded))
        ELSE Returned("return", yielded[SetMin(dones)].conversation_id,
                      yielded[SetMin(dones)].response, cbs, SetMin(dones))

\* lines 375-382: for event in the generator, from the k-th event on
RECURSIVE ConsumeEvents(_, _, _, _)
ConsumeEvents(yielded, k, callbacks, on_tool_call) ==
    IF k > Len(yielded)
    THEN Returned("exhausted", NoneId, <<>>, callbacks, Len(yielded))
    ELSE LET event == yielded[k]
             called == IF event.type = "tool_call" /\ on_tool_call
                       THEN Append(callbacks, event.query) ELSE callbacks
         IN  IF event.type = "done"
             THEN Returned("return", event.conversation_id, event.response, called, k)
             ELSE ConsumeEvents(yielded, k + 1, called, on_tool_call)

\* ChatBot.process_message on a generator that yields `yielded` and ends
\* as `exc` tells: the exception of the generator leaves process_message,
\* and a generator that ends without done gives ("", "") (line 383)
process_message(yielded, exc, on_tool_call) ==
    LET r == ConsumeEvents(yielded, 1, <<>>, on_tool_call)
    IN  IF r.how = "return" THEN r
        ELSE IF exc \in Exceptions THEN [r EXCEPT !.how = exc]
        ELSE r

----------------------------------------------------------------------------
(* api/rate_limit.py: the sliding-window rate limiter                      *)

WINDOW_SECONDS == 3600

\* the largest RATE_LIMIT_PER_HOUR tried
MaxLimit == 2

Limits == 0..MaxLimit

ApiKeys == {"key-a", "key-b"}

\* the instants at which time.time() is read: around one window's edge and
\* at the edge of the next
Instants ==
    {0, 1, WINDOW_SECONDS - 1, WINDOW_SECONDS, WINDOW_SECONDS + 1, 2 * WINDOW_SECONDS}

\* _request_log[api_key] on a defaultdict(list): the list, made if missing
Touch(log, api_key) ==
    [k \in DOMAIN log \cup {api_key} |-> IF k \in DOMAIN log THEN log[k] ELSE <<>>]

SetItem(log, api_key, timestamps) ==
    [k \in DOMAIN log \cup {api_key} |-> IF k = api_key THEN timestamps ELSE log[k]]

\* a prune that also drops the timestamp lying exactly one second inside
_prune_too_much(log, api_key, t) ==
    LET cutoff == t - WINDOW_SECONDS
    IN  SetItem(log, api_key,
                SelectSeq(Touch(log, api_key)[api_key], LAMBDA ts : ts > cutoff + 1))

\* _prune(api_key, now)
_prune(log, api_key, t) ==
    LET cutoff == t - WINDOW_SECONDS
    IN  SetItem(log, api_key,
                SelectSeq(Touch(log, api_key)[api_key], LAMBDA ts : ts > cutoff))

Max0(n) == IF n > 0 THEN n ELSE 0

NoReply == [op |-> "none", api_key |-> "", status |-> 0, remaining |-> 0, reset |-> 0]

\* get_remaining(api_key): the store after the call and the value returned
get_remaining(log, api_key, t, lim) ==
    LET pruned == _prune(log, api_key, t)
    IN  [log |-> pruned, value |-> Max0(lim - Len(pruned[api_key]))]

\* get_reset_time(api_key), as seconds since the epoch: the isoformat text
\* is one-to-one with it
get_reset_time(log, api_key, t) ==
    LET timestamps == IF api_key \in DOMAIN log THEN log[api_key] ELSE <<>>
    IN  IF timestamps = <<>> THEN t
        ELSE SetMin(Range(timestamps)) + WINDOW_SECONDS

\* a limiter that records the request before it looks at the count
rate_limit_records_first(log, api_key, t, lim) ==
    LET pruned == _prune(log, api_key, t)
        recorded == SetItem(pruned, api_key, Append(pruned[api_key], t))
    IN  IF Len(pruned[api_key]) >= lim
        THEN [log |-> recorded, status |-> 429, reset |-> get_reset_time(recorded, api_key, t)]
        ELSE [log |-> recorded, status |-> 200, reset |-> 0]

\* rate_limit(request, api_key): the store after the call, and 429 with
\* the reset header or 200
rate_limit(log, api_key, t, lim) ==
    LET pruned == _prune(log, api_key, t)
    IN  IF Len(pruned[api_key]) >= lim
        THEN [log |-> pruned, status |-> 429, reset |-> get_reset_time(pruned, api_key, t)]
        ELSE [log |-> SetItem(pruned, api_key, Append(pruned[api_key], t)),
              status |-> 200, reset |-> 0]

\* no scripted provider: the provider and the database answer as they like
NoStub == [requests |-> <<>>, retries |-> <<>>, streams |-> <<>>, breaks |-> <<>>,
           engine |-> "", rows |-> ""]

\* no request has come in yet
RateIdle ==
    /\ _request_log = [k \in {} |-> <<>>]
    /\ clock = 0
    /\ admitted = [k \in ApiKeys |-> <<>>]
    /\ reply = NoReply

\* a chat request of api_key reaches the rate_limit dependency
RateLimit(api_key) ==
    /\ LET r == rate_limit(_request_log, api_key, clock, limit)
       IN  /\ _request_log' = r.log
           /\ reply' = [op |-> "rate_limit", api_key |-> api_key, status |-> r.status,
                        remaining |-> 0, reset |-> r.reset]
           /\ admitted' = IF r.status = 200
                          THEN [admitted EXCEPT ![api_key] = Append(@, clock)]
                          ELSE admitted
    /\ UNCHANGED <<clock, limit, gateVars, botVars, stub>>

\* a route asks how many requests api_key has left
GetRemaining(api_key) ==
    /\ LET r == get_remaining(_request_log, api_key, clock, limit)
       IN  /\ _request_log' = r.log
           /\ reply' = [op |-> "get_remaining", api_key |-> api_key, status |-> 200,
                        remaining |-> r.value, reset |-> 0]
    /\ UNCHANGED <<clock, limit, admitted, gateVars, botVars, stub>>

\* a route asks when api_key's oldest request expires
GetResetTime(api_key) ==
    /\ reply' = [op |-> "get_reset_time", api_key |-> api_key, status |-> 200,
                 remaining |-> 0, reset |-> get_reset_time(_request_log, api_key, clock)]
    /\ UNCHANGED <<_request_log, clock, limit, admitted, gateVars, botVars, stub>>

\* time passes
Tick ==
    /\ \E t \in Instants : t > clock /\ clock' = t
    /\ UNCHANGED <<_request_log, limit, admitted, reply, gateVars, botVars, stub>>

RateNext ==
    \/ \E api_key \in ApiKeys : RateLimit(api_key)
    \/ \E api_key \in ApiKeys : GetRemaining(api_key)
    \/ \E api_key \in ApiKeys : GetResetTime(api_key)
    \/ Tick

RateInit == GateInit /\ BotInit /\ RateIdle /\ limit \in Limits /\ stub = NoStub

RateSpec == RateInit /\ [][RateNext]_vars

Init == GateInit /\ BotInit /\ RateIdle /\ limit = MaxLimit /\ stub = NoStub

\* stream chunks per model call while two requests are in flight
MaxConcurrentDeltas == 1

Next ==
    \/ CreateConversation
    \/ \E conversation_id \in DOMAIN conversations \cup {NoneId, UnknownId} :
          StartTurn(conversation_id)
    \/ ReasoningRequest
    \/ ReasoningRequestRetry
    \/ StreamChunk
    \/ StreamError
    \/ StreamEnd
    \/ ToolParse
    \/ ToolExecute
    \/ ToolAppend
    \/ RoundEnd
    \/ InterpretRequest
    \/ InterpretRequestRetry
    \/ InterpretChunk
    \/ InterpretEnd

Spec == Init /\ [][Next]_vars

\* the caller drops the generator while it is suspended at a yield (the
\* client of the streaming route disconnects): GeneratorExit is raised at
\* that yield, and no statement of the generator handles it
Close ==
    /\ gen.pc # "idle"
    /\ gen.at_yield
    /\ Raise("GeneratorExit")
    /\ UNCHANGED <<conversations, now, events, deltas, turns, parked, rateVars, stub, gateVars>>

AbandonNext == Next \/ Close

\* turns whose caller may abandon them
AbandonSpec == Init /\ [][AbandonNext]_vars

\* the steps the generator takes on its own: parsing a request, appending
\* a tool message, closing a round.  The steps that need an answer or a
\* chunk of the provider, the end of its stream, or the database engine's
\* answer to a query, are theirs to allow
LocalStep == ToolParse \/ ToolAppend \/ RoundEnd

\* turns in which the code's own steps are taken when they can be; the
\* provider may never answer
LiveSpec == Spec /\ WF_vars(LocalStep)

\* two requests share one ChatBot.  Each has its own generator, and each
\* generator is run by a worker thread of the streaming route: the thread that runs
\* may be taken off between any two steps, at a yield or elsewhere, and the
\* other one goes on
Switch ==
    /\ parked' = [gen |-> gen, events |-> events, outcome |-> outcome,
                  phases |-> phases, deltas |-> deltas, turns |-> turns]
    /\ gen' = parked.gen
    /\ events' = parked.events
    /\ outcome' = parked.outcome
    /\ phases' = parked.phases
    /\ deltas' = parked.deltas
    /\ turns' = parked.turns
    /\ UNCHANGED <<conversations, now, gateVars, rateVars, stub>>

\* the conversation the suspended request works on
ParkedConversation ==
    IF parked.gen.pc = "idle" THEN {} ELSE {parked.gen.conv}

\* two requests in flight, never both on one conversation id; each stream
\* is short (MaxConcurrentDeltas chunks per model call)
ConcurrentNext ==
    \/ \E conversation_id \in (DOMAIN conversations \cup {NoneId, UnknownId})
                                \ ParkedConversation :
          StartTurn(conversation_id)
    \/ ReasoningRequest
    \/ ReasoningRequestRetry
    \/ (deltas < MaxConcurrentDeltas /\ StreamChunk)
    \/ StreamError
    \/ StreamEnd
    \/ ToolParse
    \/ ToolExecute
    \/ ToolAppend
    \/ RoundEnd
    \/ InterpretRequest
    \/ InterpretRequestRetry
    \/ (deltas < MaxConcurrentDeltas + 1 /\ InterpretChunk)
    \/ InterpretEnd
    \/ Switch

ConcurrentSpec == Init /\ [][ConcurrentNext]_vars

\* a test double in place of the provider and of the database: what every
\* model call of a turn answers (the first attempt and the attempt under the
\* emergency ceiling), the chunks of every stream and whether the stream
\* breaks after them, and what the engine does with a query.  The script
\* is told by position in the turn; it reads nothing of what it is sent
Script(requests, retries, streams, breaks, engine, rows) ==
    [requests |-> requests, retries |-> retries, streams |-> streams,
     breaks |-> breaks, engine |-> engine, rows |-> rows]

SelectDelta == ToolDelta(0, "call_a", "execute_sql_query", <<OPENQ, QSEL, CLOSEQ>>)
DropDelta == ToolDelta(0, "call_a", "execute_sql_query", <<OPENQ, QDROP, CLOSEQ>>)
OkDelta == ContentDelta(<<"o", "k">>)

\* the scripts tried
Stubs ==
    { \* a direct answer
      Script(<<"stream">>, <<"stream">>, <<<<OkDelta>>>>, <<FALSE>>, "rows", ROWS_FEW),
      \* a direct answer; a second model call, which such a turn never
      \* makes, would be failed
      Script(<<"stream", "api_error">>, <<"stream", "stream">>,
             <<<<OkDelta, OkDelta>>, <<>>>>, <<FALSE, FALSE>>, "rows", ROWS_FEW),
      \* a query with a large result, then its interpretation
      Script(<<"stream", "stream">>, <<"stream", "stream">>,
             <<<<SelectDelta>>, <<OkDelta, ContentDelta(<<" ">>)>>>>,
             <<FALSE, FALSE>>, "rows", ROWS_MANY),
      \* a refused query, then a direct answer
      Script(<<"stream", "stream">>, <<"stream", "stream">>,
             <<<<OkDelta, DropDelta>>, <<OkDelta>>>>,
             <<FALSE, FALSE>>, "rows", ROWS_FEW),
      \* the engine fails the query, the next round sends it in two fragments
      \* and nothing after it
      Script(<<"stream", "stream", "stream">>, <<"stream", "stream", "stream">>,
             <<<<SelectDelta>>,
               <<ToolDelta(0, "call_a", "execute_sql_query", <<OPENQ, QSEL>>),
                 ToolDelta(0, "", "", <<CLOSEQ>>)>>,
               <<>>>>,
             <<FALSE, FALSE, FALSE>>, "sqlerror", ROWS_FEW),
      \* both model calls are first refused for their length
      Script(<<"context_length_exceeded", "context_length_exceeded">>,
             <<"stream", "stream">>,
             <<<<SelectDelta>>, <<OkDelta>>>>,
             <<FALSE, FALSE>>, "rows", ROWS_SOME),
      \* the request is refused for its length twice
      Script(<<"context_length_exceeded">>, <<"context_length_exceeded">>,
             <<<<>>>>, <<FALSE>>, "rows", ROWS_FEW),
      \* the provider fails the interpretation request
      Script(<<"stream", "api_error">>, <<"stream", "stream">>,
             <<<<SelectDelta>>, <<>>>>, <<FALSE, FALSE>>, "rows", ROWS_FEW),
      \* the provider refuses the retried interpretation request
      Script(<<"stream", "context_length_exceeded">>, <<"stream", "bad_request">>,
             <<<<SelectDelta>>, <<>>>>, <<FALSE, FALSE>>, "rows", ROWS_FEW),
      \* the reasoning stream breaks
      Script(<<"stream">>, <<"stream">>, <<<<OkDelta>>>>, <<TRUE>>, "rows", ROWS_FEW),
      \* the interpretation stream breaks
      Script(<<"stream", "stream">>, <<"stream", "stream">>,
             <<<<SelectDelta>>, <<OkDelta>>>>, <<FALSE, TRUE>>, "rows", ROWS_FEW),
      \* arguments that are no object
      Script(<<"stream">>, <<"stream">>,
             <<<<ToolDelta(0, "call_a", "execute_sql_query", <<ARR>>)>>>>,
             <<FALSE>>, "rows", ROWS_FEW),
      \* a tool the assistant does not have, then a direct answer
      Script(<<"stream", "stream">>, <<"stream", "stream">>,
             <<<<ToolDelta(0, "call_a", "get_weather", <<EMPTYOBJ>>)>>, <<OkDelta>>>>,
             <<FALSE, FALSE>>, "rows", ROWS_FEW) }

\* a stub that goes on with its script where the conversation's earlier
\* turns left it: the model calls counted over the whole conversation
CallNumber_whole_conversation(evts) ==
    Cardinality({k \in DOMAIN evts : evts[k].type = "status"})
      + Cardinality({p \in UNION {{id} \X DOMAIN conversations[id] :
                                     id \in DOMAIN conversations} :
                        conversations[p[1]][p[2]].role = "assistant"})

\* the number of the model call the turn is at: `status` is yielded before
\* every model call (lines 154 and 308)
CallNumber(evts) == Cardinality({k \in DOMAIN evts : evts[k].type = "status"})

RECURSIVE ChunksBefore(_)
ChunksBefore(n) ==
    IF n <= 1 THEN 0 ELSE Len(stub.streams[n - 1]) + ChunksBefore(n - 1)

\* the chunks of the current stream already sent
ChunksSent == deltas - ChunksBefore(CallNumber(events))

\* the stream of the current model call
StubStream == stub.streams[CallNumber(events)]

\* what create() gives back, seen from the generator
Answered(resp, second, waiting, streaming) ==
    CASE resp = "stream" -> gen'.pc = streaming
      [] resp = "context_length_exceeded" ->
            IF second THEN outcome' = _CONTEXT_LENGTH_MSG ELSE gen'.pc = waiting
      [] resp = "bad_request" -> outcome' = "BadRequestError"
      [] resp = "api_error" -> outcome' = "APIError"

StubReasoningRequest ==
    /\ CallNumber(events) \in DOMAIN stub.requests
    /\ ReasoningRequest
    /\ Answered(stub.requests[CallNumber(events)], FALSE, "request2", "stream")

StubReasoningRequestRetry ==
    /\ CallNumber(events) \in DOMAIN stub.retries
    /\ ReasoningRequestRetry
    /\ Answered(stub.retries[CallNumber(events)], TRUE, "request2", "stream")

StubInterpretRequest ==
    /\ CallNumber(events) \in DOMAIN stub.requests
    /\ InterpretRequest
    /\ Answered(stub.requests[CallNumber(events)], FALSE, "irequest2", "istream")

StubInterpretRequestRetry ==
    /\ CallNumber(events) \in DOMAIN stub.retries
    /\ InterpretRequestRetry
    /\ Answered(stub.retries[CallNumber(events)], TRUE, "irequest2", "istream")

\* the chunk handed over is the script's next one
StubStreamChunk ==
    /\ CallNumber(events) \in DOMAIN stub.streams
    /\ ChunksSent < Len(StubStream)
    /\ StreamChunk
    /\ LET delta == StubStream[ChunksSent + 1]
       IN  /\ gen'.tool_calls_acc = AccumulateAll(gen.tool_calls_acc, delta.tool_calls, 1)
           /\ gen'.content_parts = IF delta.content # <<>>
                                   THEN Append(gen.content_parts, delta.content)
                                   ELSE gen.content_parts

StubInterpretChunk ==
    /\ CallNumber(events) \in DOMAIN stub.streams
    /\ ChunksSent < Len(StubStream)
    /\ InterpretChunk
    /\ LET delta == StubStream[ChunksSent + 1]
       IN  gen'.content_parts = IF delta.content # <<>>
                                THEN Append(gen.content_parts, delta.content)
                                ELSE gen.content_parts

\* the script's stream is exhausted
StubExhausted(broken) ==
    /\ CallNumber(events) \in DOMAIN stub.streams
    /\ ChunksSent = Len(StubStream)
    /\ stub.breaks[CallNumber(events)] = broken

StubStreamEnd == StubExhausted(FALSE) /\ StreamEnd

StubInterpretEnd == StubExhausted(FALSE) /\ InterpretEnd

StubStreamError == StubExhausted(TRUE) /\ StreamError

\* the database is the script's: the engine does with a query what the
\* script says, and the rows are the script's
StubToolExecute ==
    /\ ToolExecute
    /\ LET r == calls'[Len(calls')].result
       IN  calls' # calls /\ r.executed =>
              /\ r = _execute_query(r.stmt, stub.engine, connMode)
              /\ r.exc = "none" =>
                    /\ outcome' = outcome
                    /\ events'[Len(events')].result = JsonDumps("results", stub.rows, <<>>)

\* the second request comes in when the first is over
StubSwitch ==
    /\ gen.pc = "idle"
    /\ turns = 1
    /\ parked.turns = 0
    /\ Switch

\* the conversation both requests name
StubCreateConversation ==
    /\ DOMAIN conversations = {}
    /\ CreateConversation

\* one existing conversation, resolved by two requests, one after the other,
\* with the same user message, against one script
IdempotenceNext ==
    \/ StubCreateConversation
    \/ \E conversation_id \in DOMAIN conversations : StartTurn(conversation_id)
    \/ StubReasoningRequest
    \/ StubReasoningRequestRetry
    \/ StubStreamChunk
    \/ StubStreamError
    \/ StubStreamEnd
    \/ ToolParse
    \/ StubToolExecute
    \/ ToolAppend
    \/ RoundEnd
    \/ StubInterpretRequest
    \/ StubInterpretRequestRetry
    \/ StubInterpretChunk
    \/ StubInterpretEnd
    \/ StubSwitch

IdempotenceInit ==
    /\ GateInit /\ BotInit /\ RateIdle
    /\ limit = MaxLimit
    /\ stub \in Stubs

IdempotenceSpec == IdempotenceInit /\ [][IdempotenceNext]_vars

\* closing a round is a step of the generator's own, always possible at
\* round_end and always leaving it: weak fairness of RoundEnd, with its
\* enabling condition written out
RoundEndFair == []<>(gen.pc # "round_end") \/ []<><<RoundEnd>>_vars

\* turns in which the generator's own steps are taken when they can be;
\* the provider and the database answer or not
RetrySpec == Spec /\ WF_vars(ToolParse \/ ToolAppend) /\ RoundEndFair

\* the gate called directly, as a caller holding a QueryExecutor does
GateNext == ExecuteSafeQuery

GateSpec == Init /\ [][GateNext]_vars

----------------------------------------------------------------------------
(* The context budgeter called on its own                                  *)

SampleRequest ==
    [id |-> "call_a", name |-> "execute_sql_query", arguments |-> <<OPENQ, QSEL, CLOSEQ>>]

SampleUser == Message("user", USER_MESSAGE, "request", NoId, <<>>)

SampleReasoning == Message("assistant", NoneContent, "reasoning", NoId, <<SampleRequest>>)

SampleTool(rows) == Message("tool", JsonDumps("results", rows, <<>>), "tool", "call_a", <<>>)

SampleAnswer(type) == Message("assistant", Str(<<"o", "k">>), type, NoId, <<>>)

\* the reasoning message after line 289 attached the record of its call
WithRecord(m, rows) ==
    [m EXCEPT !.tool_calls_set = TRUE,
              !.tool_calls = <<[query |-> QueryStr(QueryChars(QSEL)),
                                response |-> JsonDumps("results", rows, <<>>)]>>]

\* the turns a conversation can hold: answered at once, with a tool round
\* (few or many rows), and turns that an exception ended early
SampleTurns ==
    { <<SampleUser, SampleAnswer("output")>>,
      <<SampleUser, WithRecord(SampleReasoning, ROWS_FEW), SampleTool(ROWS_FEW),
        SampleAnswer("interpret")>>,
      <<SampleUser, WithRecord(SampleReasoning, ROWS_MANY), SampleTool(ROWS_MANY),
        SampleAnswer("interpret")>>,
      <<SampleUser>>,
      <<SampleUser, SampleReasoning>>,
      <<SampleUser, WithRecord(SampleReasoning, ROWS_FEW), SampleTool(ROWS_FEW)>> }

RECURSIVE TurnSequences(_)
TurnSequences(n) ==
    IF n = 0 THEN {<<>>}
    ELSE LET shorter == TurnSequences(n - 1)
         IN  shorter \cup {c \o t : c \in shorter, t \in SampleTurns}

\* conversations as create_conversation and turns leave them
SampleConversations ==
    {<<Message("system", get_system_prompt(0), "system", NoId, <<>>)>> \o c :
        c \in TurnSequences(MaxSampleTurns)}

SystemContents == {ReasoningSystem(1), RetrySystem}

Ceilings == (0..MaxCeiling) \cup {EMERGENCY_TOKENS, MAX_REQUEST_TOKENS}

\* a to_api_dict that moves the content out of the message
AfterToApiDict_moved(m) == [m EXCEPT !.content = NoneContent]

\* the message after its to_api_dict: the method assigns to the new dict only
AfterToApiDict(m) == m

\* conversation.messages after _build_api_messages: line 103 reads it
\* through a slice, which copies, and 120 and 126 call to_api_dict on its
\* messages; every other statement works on the lists the call made
MessagesAfterBuild(messages) == [k \in DOMAIN messages |-> AfterToApiDict(messages[k])]

\* the locals of one call of _build_api_messages
BuildFrame(system_content, max_tokens, api_messages) ==
    [pc |-> "_build_api_messages", conv |-> 1, system_content |-> system_content,
     max_tokens |-> max_tokens, api_messages |-> api_messages]

BudgeterInit ==
    /\ stub = NoStub
    /\ GateInit
    /\ RateIdle
    /\ limit = MaxLimit
    /\ conversations \in {[id \in {1} |-> c] : c \in SampleConversations}
    /\ now = 0
    /\ gen = IdleGen
    /\ events = <<>>
    /\ outcome = "none"
    /\ phases = <<>>
    /\ deltas = 0
    /\ turns = 0
    /\ parked = NoParked

\* one call of _build_api_messages(conversation, system_content, max_tokens)
BuildApiMessages ==
    /\ gen.pc = "idle"
    /\ \E system_content \in SystemContents, max_tokens \in Ceilings :
          /\ gen' = BuildFrame(system_content, max_tokens,
                               _build_api_messages(conversations[1], system_content, max_tokens))
          /\ conversations' = [conversations EXCEPT ![1] = MessagesAfterBuild(@)]
    /\ UNCHANGED <<now, events, outcome, phases, deltas, turns, parked, rateVars, stub, gateVars>>

BudgeterNext == BuildApiMessages

BudgeterSpec == BudgeterInit /\ [][BudgeterNext]_vars

----------------------------------------------------------------------------
(* The accumulation of tool-call fragments on streams of fragments        *)

\* streams tried have at most this many chunks
MaxChunks == 3

\* a fragment whose function part is missing (tc_delta.function is None)
IdOnlyDelta(index, id) ==
    [index |-> index, id |-> id, has_function |-> FALSE, name |-> "", arguments |-> <<>>]

\* the tool_calls lists a chunk may carry: fragments of two calls, with
\* and without id and name, and chunks that carry two fragments
FragmentLists ==
    { <<ToolCallDelta(0, "call_a", "execute_sql_query", <<OPENQ>>)>>,
      <<ToolCallDelta(0, "", "", <<QSEL>>)>>,
      <<ToolCallDelta(0, "", "", <<CLOSEQ>>)>>,
      <<ToolCallDelta(0, "", "get_weather", <<>>)>>,
      <<IdOnlyDelta(0, "call_b")>>,
      <<ToolCallDelta(1, "call_b", "execute_sql_query", <<OPENQ>>)>>,
      <<ToolCallDelta(1, "", "", <<QDROP>>)>>,
      <<ToolCallDelta(1, "call_a", "", <<CLOSEQ>>)>>,
      <<IdOnlyDelta(1, "")>>,
      <<ToolCallDelta(1, "call_b", "execute_sql_query", <<OPENQ>>),
        ToolCallDelta(0, "call_a", "execute_sql_query", <<OPENQ>>)>>,
      <<ToolCallDelta(0, "", "", <<QSEL>>), ToolCallDelta(1, "", "", <<QDROP>>)>>,
      <<ToolCallDelta(1, "", "", <<CLOSEQ>>), ToolCallDelta(0, "", "", <<CLOSEQ>>)>> }

RECURSIVE FragmentStreams(_)
FragmentStreams(n) ==
    IF n = 0 THEN {<<>>}
    ELSE LET shorter == FragmentStreams(n - 1)
         IN  shorter \cup {Append(st, tcs) : st \in shorter, tcs \in FragmentLists}

\* lines 184-210 on a whole stream: every chunk's fragments folded in turn
RECURSIVE FoldStream(_, _, _)
FoldStream(acc, stream, k) ==
    IF k > Len(stream) THEN acc
    ELSE FoldStream(AccumulateAll(acc, stream[k], 1), stream, k + 1)

\* the locals after the loop over the stream, and raw_tool_calls built
\* from them
AccumulateFrame(stream, acc) ==
    [pc |-> "raw_tool_calls", conv |-> NoneId, stream |-> stream,
     tool_calls_acc |-> acc, raw_tool_calls |-> RawToolCalls(acc)]

\* one reasoning stream, taken whole
AccumulateStream ==
    /\ gen.pc = "idle"
    /\ \E stream \in FragmentStreams(MaxChunks) :
          gen' = AccumulateFrame(stream, FoldStream(EmptyAcc, stream, 1))
    /\ UNCHANGED <<conversations, now, events, outcome, phases, deltas, turns, parked,
                   rateVars, stub, gateVars>>

AccumulatorNext == AccumulateStream

AccumulatorSpec == Init /\ [][AccumulatorNext]_vars

----------------------------------------------------------------------------
(* The claims about the Safe Query Gate, stated without the gate's code     *)

selectLower == <<"s","e","l","e","c","t">>

\* s begins with SELECT in some letter case
BeginsWithSelectAnyCase(s) ==
    /\ Len(s) >= 6
    /\ \A i \in 1..6 : s[i] = SELECT[i] \/ s[i] = selectLower[i]

Denylist ==
    { <<"I","N","S","E","R","T">>, <<"U","P","D","A","T","E">>, <<"D","E","L","E","T","E">>,
      <<"D","R","O","P">>, <<"A","L","T","E","R">>, <<"C","R","E","A","T","E">>,
      <<"A","T","T","A","C","H">>, <<"D","E","T","A","C","H">>, <<"P","R","A","G","M","A">>,
      <<"G","R","A","N","T">>, <<"R","E","V","O","K","E">> }

\* the whole words of s: its maximal runs of word characters
Words(s) ==
    LET starts == {i \in 1..Len(s) :
                      IsWordChar(s[i]) /\ (i = 1 \/ ~IsWordChar(s[i - 1]))}
        ends == {j \in 1..Len(s) :
                    IsWordChar(s[j]) /\ (j = Len(s) \/ ~IsWordChar(s[j + 1]))}
    IN  {SubSeq(s, i, SetMin({j \in ends : j >= i})) : i \in starts}

\* s holds a denylisted keyword as a whole word, in any letter case
HasDenylistedWord(s) == \E w \in Words(s) : Upper(w) \in Denylist

HasSemicolonAnywhere(s) == \E i \in 1..Len(s) : s[i] = ";"

HasCommentAnywhere(s) ==
    \E i \in 1..(Len(s) - 1) :
        (s[i] = "-" /\ s[i + 1] = "-") \/ (s[i] = "/" /\ s[i + 1] = "*")

\* trimmed, one trailing ';' removed
Normalized(q) ==
    LET t == Strip(q)
    IN  IF t # <<>> /\ t[Len(t)] = ";" THEN Strip(SubSeq(t, 1, Len(t) - 1)) ELSE t

\* the five validation checks of the contract
PassesFiveChecks(n) ==
    /\ n # <<>>
    /\ BeginsWithSelectAnyCase(n)
    /\ ~HasSemicolonAnywhere(n)
    /\ ~HasDenylistedWord(n)
    /\ ~HasCommentAnywhere(n)

Rejected(c) ==
    /\ c.result.exc = "ValueError"
    /\ c.result.msg # ""
    /\ ~c.result.executed
    /\ c.logged = 0

CallIds == 1..Len(calls)

\* C1: a statement reaches the connection only if the normalized input passed
\* all five checks, and it is that normalized input; when a check fails nothing
\* is executed and a ValueError carrying a reason is raised.
C1_ExecutesOnlyValidated ==
    /\ \A i \in CallIds :
          LET c == calls[i]
              n == Normalized(c.input)
          IN  /\ c.result.executed =>
                    PassesFiveChecks(n) /\ c.logged \in 1..Len(dbLog) /\ dbLog[c.logged] = n
              /\ ~PassesFiveChecks(n) => Rejected(c)
    /\ \A k \in 1..Len(dbLog) : \E i \in CallIds : calls[i].logged = k

C1_Witness ==
    \E i, j \in CallIds :
        /\ calls[i].result.executed /\ calls[i].logged = 1 /\ Len(dbLog) = 1
        /\ calls[j].result.exc = "ValueError"

\* C2: an input that, trimmed, does not begin with SELECT in any letter case
\* (the empty and the whitespace-only input included) is rejected with a
\* ValueError and nothing is executed.
C2_NonSelectRejected ==
    \A i \in CallIds :
        ~BeginsWithSelectAnyCase(Strip(calls[i].input)) =>
            Rejected(calls[i]) /\ dbLog = <<>>

C2_Witness ==
    \E i, j \in CallIds :
        /\ calls[i].input # <<>> /\ Strip(calls[i].input) = <<>> /\ Rejected(calls[i])
        /\ Strip(calls[j].input) # <<>> /\ ~BeginsWithSelectAnyCase(Strip(calls[j].input))
        /\ Rejected(calls[j])

\* C3: a query holding a denylisted keyword as a whole word, in any letter case
\* and at any position, is rejected before execution; the keyword check fires
\* only for such a whole word, never for a keyword inside a longer identifier.
C3_DenylistedWordRejected ==
    \A i \in CallIds :
        LET c == calls[i]
        IN  /\ HasDenylistedWord(c.input) => Rejected(c)
            /\ c.result.msg = "Query contains a blocked keyword: " =>
                   /\ HasDenylistedWord(c.input)
                   /\ Upper(c.result.detail) \in Denylist
            /\ (PassesFiveChecks(Normalized(c.input)) => c.result.executed)

C3_Witness ==
    \E i \in CallIds :
        /\ calls[i].result.msg = "Query contains a blocked keyword: "
        /\ calls[i].result.detail = <<"D","r","o","p">>
        /\ Rejected(calls[i])

\* k is q followed by a single ';' with optional whitespace around it
IsSemicolonVariant(k, q) ==
    /\ Len(k) > Len(q)
    /\ SubSeq(k, 1, Len(q)) = q
    /\ \E p \in (Len(q) + 1)..Len(k) :
          /\ k[p] = ";"
          /\ \A m \in ((Len(q) + 1)..Len(k)) \ {p} : k[m] \in Whitespace

\* s has a ';' that is not its final non-whitespace character
HasInnerSemicolon(s) ==
    \E i \in 1..Len(s) : s[i] = ";" /\ \E j \in (i + 1)..Len(s) : s[j] \notin Whitespace

\* C4: when q passes validation, q followed by a single trailing ';' (with
\* optional whitespace) is accepted and hands the connection the same
\* statement as q; a ';' anywhere else (a doubled ';;' included) is rejected.
C4_TrailingSemicolon ==
    /\ \A i, j \in CallIds :
          ( /\ calls[i].result.executed
            /\ ~HasSemicolonAnywhere(calls[i].input)
            /\ IsSemicolonVariant(calls[j].input, calls[i].input) )
          => /\ calls[j].result.executed
             /\ calls[j].result.stmt = calls[i].result.stmt
             /\ dbLog[calls[j].logged] = dbLog[calls[i].logged]
    /\ \A i \in CallIds : HasInnerSemicolon(calls[i].input) => Rejected(calls[i])

C4_Witness ==
    \E i, j \in CallIds :
        /\ calls[i].result.executed
        /\ calls[j].input = calls[i].input \o <<" ", ";", " ">>
        /\ calls[j].result.executed
        /\ calls[j].result.stmt = calls[i].result.stmt

\* C5: a query holding '--' or '/*' anywhere is rejected and not executed,
\* even when it is otherwise a valid SELECT.
C5_CommentRejected ==
    \A i \in CallIds :
        HasCommentAnywhere(calls[i].input) => Rejected(calls[i]) /\ dbLog = <<>>

C5_Witness ==
    \E i \in CallIds :
        LET n == Normalized(calls[i].input)
        IN  /\ Contains(n, <<"/","*">>)
            /\ BeginsWithSelectAnyCase(n)
            /\ ~HasSemicolonAnywhere(n)
            /\ ~HasDenylistedWord(n)
            /\ Rejected(calls[i])

\* C6: the stored data is the same after any sequence of gate executions: the
\* connection is opened read-only and refuses a write that got past the
\* validator.
C6_DatabaseUnchanged ==
    /\ connMode = "ro"
    /\ dbData = 0

C6_Witness ==
    \E i \in CallIds :
        /\ calls[i].result.executed
        /\ calls[i].result.msg = "Query execution failed: attempt to write a readonly database"
        /\ dbData = 0

----------------------------------------------------------------------------
(* The claims about tool execution in a turn                               *)

Last(s) == s[Len(s)]

ToolPcs == {"tool_parse", "tool_exec", "tool_append", "round_end"}

\* the exceptions the tool loop itself can raise
LocalExceptions == {"JSONDecodeError", "AttributeError", "KeyError", "TypeError",
                    "ValueError", "RuntimeError"}

\* positions of the tool_result events of the current round: those after
\* the last reasoning event
RoundResults ==
    LET starts == {k \in DOMAIN events : events[k].type = "reasoning"}
    IN  IF starts = {} THEN {}
        ELSE {k \in DOMAIN events : k > SetMax(starts) /\ events[k].type = "tool_result"}

RoundHasFailure == \E k \in RoundResults : ~events[k].success

\* the tool message of a result, as line 280 builds it
ToolMessage(result, id) == Message("tool", result, "tool", id, <<>>)

RECURSIVE AnswersAfter(_, _)
AnswersAfter(msgs, p) ==
    IF p + 1 <= Len(msgs) /\ msgs[p + 1].role = "tool"
    THEN 1 + AnswersAfter(msgs, p + 1)
    ELSE 0

\* the turn is inside the tool loop of the assistant message at p of id
ExecutingRound(id, p) ==
    gen.conv = id /\ gen.pc \in ToolPcs /\ gen.assistant_at = p

\* C8: whatever the name and the arguments of the accumulated requests, the
\* turn does not end with an exception of the tool loop, and once the loop
\* is over every request of the round has exactly one tool message carrying
\* its id.
C8_EveryRequestAnswered ==
    /\ outcome \notin LocalExceptions
    /\ \A id \in DOMAIN conversations :
          LET msgs == conversations[id]
          IN  \A p \in DOMAIN msgs :
                 (msgs[p].raw_tool_calls # <<>> /\ ~ExecutingRound(id, p))
                 => LET raw == msgs[p].raw_tool_calls
                    IN  \A k \in DOMAIN raw :
                           Cardinality({q \in (p + 1)..(p + Len(raw)) :
                                           /\ q <= Len(msgs)
                                           /\ msgs[q].role = "tool"
                                           /\ msgs[q].tool_call_id = raw[k].id}) = 1

\* the arguments of a request stop in the middle of the JSON text: the turn
\* ends with JSONDecodeError and the request has no tool message
C8_Witness ==
    /\ outcome = "JSONDecodeError"
    /\ gen.pc = "idle"
    /\ \E id \in DOMAIN conversations :
          LET msgs == conversations[id]
          IN  /\ Last(msgs).role = "assistant"
              /\ Len(Last(msgs).raw_tool_calls) = 1
              /\ Last(msgs).raw_tool_calls[1].name = "execute_sql_query"
              /\ Last(msgs).raw_tool_calls[1].arguments = <<OPENQ, QSEL>>

\* the request the tool loop is at names another function than the declared one
AtUnknownTool ==
    /\ gen.pc \in {"tool_parse", "tool_exec", "tool_append"}
    /\ gen.raw_tool_calls[gen.i].name # "execute_sql_query"

\* C9: a request that names another function than execute_sql_query never
\* reaches the gate and never raises: its steps leave the gate's calls
\* alone and keep the turn running, its result is the Unknown tool error
\* payload with success false, that payload becomes its tool message, and
\* the round counts as failed.
C9_UnknownToolFolded ==
    [][ AtUnknownTool
        => LET raw_tc == gen.raw_tool_calls[gen.i]
               payload == JsonDumps("error", "Unknown tool: ", <<raw_tc.name>>)
           IN  /\ calls' = calls
               /\ outcome' = outcome
               /\ gen'.pc # "idle"
               /\ gen.pc = "tool_exec"
                    => /\ gen'.result = payload
                       /\ gen'.any_failed
                       /\ Last(events').type = "tool_result"
                       /\ ~Last(events').success
                       /\ Last(events').result = payload
               /\ gen.pc = "tool_append"
                    => Last(conversations'[gen.conv]) = ToolMessage(payload, raw_tc.id) ]_vars

\* a request for get_weather with no arguments text: the turn ends with
\* JSONDecodeError before the name is looked at
C9_Witness ==
    /\ outcome = "JSONDecodeError"
    /\ gen.pc = "idle"
    /\ calls = <<>>
    /\ \E id \in DOMAIN conversations :
          LET msgs == conversations[id]
          IN  /\ Last(msgs).role = "assistant"
              /\ Len(Last(msgs).raw_tool_calls) = 1
              /\ Last(msgs).raw_tool_calls[1].name = "get_weather"
              /\ Last(msgs).raw_tool_calls[1].arguments = <<>>

\* C10: a failed call does not stop the loop, the loop ends only when every
\* call of the round has its result, and then the turn goes to
\* RETRY_REASONING when a result of the round is a failure and to
\* INTERPRETING when none is.
C10_RoundOutcome ==
    [][ /\ (gen.pc = "tool_append" /\ gen.i < Len(gen.raw_tool_calls))
            => gen'.pc = "tool_parse" /\ gen'.i = gen.i + 1 /\ outcome' = outcome
        /\ gen.pc = "round_end"
            => /\ Cardinality(RoundResults) = Len(gen.raw_tool_calls)
               /\ RoundHasFailure
                    => /\ phases' = phases \o <<"RETRY_REASONING", "REASONING">>
                       /\ gen'.pc = "request"
               /\ ~RoundHasFailure
                    => /\ phases' = Append(phases, "INTERPRETING")
                       /\ gen'.pc = "irequest" ]_vars

\* a round of two calls whose first failed and whose second succeeded went
\* to RETRY_REASONING, and the next round, without failure, to INTERPRETING
C10_Witness ==
    /\ phases = <<"REASONING", "EXECUTING_TOOLS", "RETRY_REASONING",
                  "REASONING", "EXECUTING_TOOLS", "INTERPRETING">>
    /\ LET results == {k \in DOMAIN events : events[k].type = "tool_result"}
       IN  /\ Cardinality(results) = 3
           /\ ~events[SetMin(results)].success
           /\ events[SetMax(results)].success
           /\ \E k \in results : k # SetMax(results) /\ events[k].success

----------------------------------------------------------------------------
(* The claims about the scenarios of a turn                                *)

CountOf(seq, x) == Cardinality({k \in DOMAIN seq : seq[k] = x})

\* the reasons _validate_query gives
RejectionReasons ==
    {"Query must not be empty or whitespace-only.",
     "Only SELECT queries are allowed. Received query starting with: ",
     "Query must not contain semicolons. Multiple statements are not allowed.",
     "Query contains a blocked keyword: ",
     "Query must not contain SQL comments (-- or /*)."}

\* the results of the current round that carry a rejection of the gate
RoundRejections ==
    {k \in RoundResults :
        events[k].result.name = "error" /\ events[k].result.msg \in RejectionReasons}

\* the messages from the last user message on
CurrentTurn(msgs) ==
    LET users == {k \in DOMAIN msgs : msgs[k].role = "user"}
    IN  IF users = {} THEN <<>> ELSE SubSeq(msgs, SetMax(users), Len(msgs))

\* the token estimate of the system message with the current turn is within the ceiling
TurnFits(msgs, system_content, ceiling) ==
    LET system_msg == [role |-> "system", tool_call_id |-> "<absent>",
                       content |-> system_content, tool_calls |-> <<>>]
        turn == CurrentTurn(msgs)
    IN  _count_tokens_for_messages(
            <<system_msg>> \o [k \in 1..Len(turn) |-> to_api_dict(turn[k])]) <= ceiling

\* every rejection of the round is the content of a tool message of the list
ShowsRejections(api_messages) ==
    \A k \in RoundRejections :
        \E j \in DOMAIN api_messages :
            /\ api_messages[j].role = "tool"
            /\ api_messages[j].content = events[k].result

\* RETRY_REASONING is entered once per round that ends with a failure and at no other step
RetryOncePerFailedRound ==
    /\ (gen.pc = "round_end" /\ RoundHasFailure)
          => CountOf(phases', "RETRY_REASONING") = CountOf(phases, "RETRY_REASONING") + 1
    /\ CountOf(phases', "RETRY_REASONING") # CountOf(phases, "RETRY_REASONING")
          => \/ gen.pc = "round_end" /\ RoundHasFailure
             \/ gen.pc = "idle" /\ phases' = <<"REASONING">>

\* C11 as stated: a round with a rejected query goes to RETRY_REASONING
\* exactly once, and every message list built for the retry request holds
\* the tool message with the rejection reason.
C11_RetrySeesRejection_AsStated ==
    [][ /\ RetryOncePerFailedRound
        /\ (gen.pc = "round_end" /\ RoundRejections # {})
              => /\ gen'.pc = "request"
                 /\ ShowsRejections(gen'.api_messages)
        /\ (gen.pc = "request" /\ gen'.pc = "request2")
              => ShowsRejections(gen'.api_messages) ]_vars

\* C11: a round with a rejected query goes to RETRY_REASONING exactly once,
\* and every message list built for the retry request holds the tool message
\* with the rejection reason, provided the token estimate of the current
\* turn is within the ceiling the list is built for.
C11_RetrySeesRejection ==
    [][ /\ RetryOncePerFailedRound
        /\ (gen.pc = "round_end" /\ RoundRejections # {})
              => /\ gen'.pc = "request"
                 /\ TurnFits(conversations'[gen.conv], RetrySystem, MAX_REQUEST_TOKENS)
                       => ShowsRejections(gen'.api_messages)
        /\ (gen.pc = "request" /\ gen'.pc = "request2")
              => (TurnFits(conversations'[gen.conv], gen.reasoning_system, EMERGENCY_TOKENS)
                     => ShowsRejections(gen'.api_messages)) ]_vars

\* the retry request after a rejected DROP TABLE is about to be sent, and
\* its message list holds the tool message with the reason
C11_Witness ==
    /\ gen.pc = "request"
    /\ phases = <<"REASONING", "EXECUTING_TOOLS", "RETRY_REASONING", "REASONING">>
    /\ RoundRejections # {}
    /\ \E j \in DOMAIN gen.api_messages :
          /\ gen.api_messages[j].role = "tool"
          /\ gen.api_messages[j].content.msg
                = "Only SELECT queries are allowed. Received query starting with: "
          /\ gen.api_messages[j].content.detail = <<"D", "R", "O", "P">>

\* the tokens of the token events of the turn, joined
InterpretationText ==
    LET toks == SelectSeq(events, LAMBDA e : e.type = "token")
    IN  Join([k \in 1..Len(toks) |-> toks[k].token], 1)

\* the turn that has just ended: one reasoning round with tool calls that
\* all succeeded, then the answer
OneRoundTurnDone ==
    /\ gen.pc = "idle"
    /\ outcome = "done"
    /\ phases = <<"REASONING", "EXECUTING_TOOLS", "INTERPRETING", "DONE">>

\* C12: after a turn on a fresh conversation with one reasoning round whose
\* tool calls all succeeded and an answer, the last event is done with the
\* interpretation text, and the conversation is system, user, the reasoning
\* assistant message with the requests, one tool message per request in
\* order, and the interpret assistant message with that text.
C12_ToolTurnShape ==
    OneRoundTurnDone
    => LET e == Last(events)
           msgs == conversations[e.conversation_id]
       IN  /\ e.type = "done"
           /\ e.response = InterpretationText
           /\ CountOf([k \in DOMAIN msgs |-> msgs[k].role], "user") = 1
                => LET raw == msgs[3].raw_tool_calls
                       n == Len(raw)
                   IN  /\ n >= 1
                       /\ Len(msgs) = 4 + n
                       /\ msgs[1].role = "system" /\ msgs[1].type = "system"
                       /\ msgs[2].role = "user" /\ msgs[2].type = "request"
                       /\ msgs[2].content = USER_MESSAGE
                       /\ msgs[3].role = "assistant" /\ msgs[3].type = "reasoning"
                       /\ \A k \in 1..n :
                             /\ msgs[3 + k].role = "tool"
                             /\ msgs[3 + k].type = "tool"
                             /\ msgs[3 + k].tool_call_id = raw[k].id
                             /\ msgs[3 + k].content.name = "results"
                       /\ msgs[4 + n].role = "assistant"
                       /\ msgs[4 + n].type = "interpret"
                       /\ msgs[4 + n].content = Str(e.response)

\* such a turn with two requests and an answer text
C12_Witness ==
    /\ OneRoundTurnDone
    /\ Last(events).response = <<"o", "k">>
    /\ LET msgs == conversations[Last(events).conversation_id]
       IN  /\ Len(msgs) = 6
           /\ Len(msgs[3].raw_tool_calls) = 2
           /\ msgs[6].type = "interpret"

EventTypes == {events[k].type : k \in DOMAIN events}

\* the reasoning stream completes with no accumulated tool-call request
StreamCompletesWithoutToolCalls ==
    /\ gen.pc = "stream"
    /\ gen.tool_calls_acc = EmptyAcc
    /\ gen'.pc # "stream"
    /\ outcome' # "APIError"

\* C13: when the reasoning stream completes with no accumulated tool-call
\* request the turn ends at once as DONE: the step emits done and nothing
\* else, leaves the gate alone, makes no interpretation request and appends
\* one assistant message tagged output holding the text (None when there is
\* no text); a turn that went from REASONING straight to DONE has no
\* tool_call, tool_result, reasoning or token event and has not called the gate.
C13_DirectAnswer ==
    [][ /\ StreamCompletesWithoutToolCalls
          => LET text == Join(gen.content_parts, 1)
                 msgs == conversations[gen.conv]
             IN  /\ gen'.pc = "idle"
                 /\ outcome' = "done"
                 /\ phases' = Append(phases, "DONE")
                 /\ events' = Append(events, [type |-> "done", conversation_id |-> gen.conv,
                                              response |-> text])
                 /\ calls' = calls /\ dbLog' = dbLog
                 /\ Len(conversations'[gen.conv]) = Len(msgs) + 1
                 /\ SubSeq(conversations'[gen.conv], 1, Len(msgs)) = msgs
                 /\ Last(conversations'[gen.conv]).role = "assistant"
                 /\ Last(conversations'[gen.conv]).type = "output"
                 /\ Last(conversations'[gen.conv]).raw_tool_calls = <<>>
                 /\ Last(conversations'[gen.conv]).content
                       = IF text = <<>> THEN NoneContent ELSE Str(text)
        /\ phases' = <<"REASONING", "DONE">>
          => /\ EventTypes' \subseteq {"status", "reasoning_token", "done"}
             /\ calls' = calls ]_vars

\* a turn answered without data: REASONING then DONE, with the text ok
C13_Witness ==
    /\ phases = <<"REASONING", "DONE">>
    /\ outcome = "done"
    /\ events = <<Event_status, [type |-> "reasoning_token", token |-> <<"o", "k">>],
                  [type |-> "done", conversation_id |-> Last(events).conversation_id,
                   response |-> <<"o", "k">>]>>
    /\ calls = <<>>
    /\ Last(conversations[Last(events).conversation_id]).type = "output"

\* the requests of the accumulator by ascending index
RequestsInOrder(acc) ==
    [j \in 1..Cardinality(DOMAIN acc) |->
        acc[CHOOSE i \in DOMAIN acc : Cardinality({h \in DOMAIN acc : h < i}) = j - 1]]

\* the query the loop reads from a request: args.get("query", "")
QueryOf(raw_tc) ==
    LET args == json_loads(raw_tc.arguments)
    IN  IF args.ok /\ args.has_query THEN args.query ELSE QueryStr(<<>>)

ToolEvents == SelectSeq(events, LAMBDA e : e.type \in {"tool_call", "tool_result"})

\* the events after the last reasoning event
RoundEvents ==
    LET starts == {k \in DOMAIN events : events[k].type = "reasoning"}
    IN  IF starts = {} THEN <<>> ELSE SubSeq(events, SetMax(starts) + 1, Len(events))

\* C14: tool calls run one at a time in request order (the order of their
\* indexes): tool_call and tool_result events alternate, each tool_result
\* has the query of the tool_call before it, the j-th pair of a round and
\* the j-th tool message after the assistant message belong to the j-th
\* request, and no call starts before the tool message of the one before it
\* is appended.
C14_ToolCallsInOrder ==
    /\ \A k \in DOMAIN ToolEvents :
          IF k % 2 = 1 THEN ToolEvents[k].type = "tool_call"
          ELSE /\ ToolEvents[k].type = "tool_result"
               /\ ToolEvents[k].query = ToolEvents[k - 1].query
    /\ \A id \in DOMAIN conversations :
          LET msgs == conversations[id]
          IN  \A p \in DOMAIN msgs :
                 msgs[p].raw_tool_calls # <<>>
                 => /\ AnswersAfter(msgs, p) <= Len(msgs[p].raw_tool_calls)
                    /\ \A j \in 1..AnswersAfter(msgs, p) :
                          msgs[p + j].tool_call_id = msgs[p].raw_tool_calls[j].id
    /\ gen.pc \in ToolPcs
          => LET requests == RequestsInOrder(gen.tool_calls_acc)
                 msgs == conversations[gen.conv]
                 p == gen.assistant_at
                 rc == SelectSeq(RoundEvents, LAMBDA e : e.type = "tool_call")
                 rr == SelectSeq(RoundEvents, LAMBDA e : e.type = "tool_result")
                 answered == AnswersAfter(msgs, p)
             IN  /\ gen.raw_tool_calls = requests
                 /\ msgs[p].raw_tool_calls = requests
                 /\ Len(rc) <= Len(requests)
                 /\ \A j \in 1..Len(rc) : rc[j].query = QueryOf(requests[j])
                 /\ \A j \in 1..Len(rr) : rr[j].query = QueryOf(requests[j])
                 /\ \A j \in 1..answered :
                       /\ msgs[p + j].content = rr[j].result
                       /\ msgs[p + j].tool_call_id = requests[j].id
                 /\ gen.pc = "tool_parse"
                       => Len(rc) = gen.i - 1 /\ Len(rr) = gen.i - 1 /\ answered = gen.i - 1
                 /\ gen.pc = "tool_exec"
                       => Len(rc) = gen.i /\ Len(rr) = gen.i - 1 /\ answered = gen.i - 1
                 /\ gen.pc = "tool_append"
                       => Len(rc) = gen.i /\ Len(rr) = gen.i /\ answered = gen.i - 1
                 /\ gen.pc = "round_end"
                       => /\ Len(rc) = Len(requests) /\ Len(rr) = Len(requests)
                          /\ answered = Len(requests)

\* a round of two requests with different queries: both calls are done, the
\* request with index 0 first
C14_Witness ==
    /\ gen.pc = "round_end"
    /\ Len(gen.raw_tool_calls) = 2
    /\ gen.raw_tool_calls[1].id = "call_a" /\ gen.raw_tool_calls[2].id = "call_b"
    /\ QueryOf(gen.raw_tool_calls[1]) # QueryOf(gen.raw_tool_calls[2])
    /\ ToolEvents[1].query = QueryOf(gen.raw_tool_calls[1])
    /\ ToolEvents[4].query = QueryOf(gen.raw_tool_calls[2])
    /\ Last(conversations[gen.conv]).tool_call_id = "call_b"

\* the events from position k on follow the phase order; st is the phase
\* the events before k have led to, failed whether a result of the round failed
RECURSIVE InPhaseOrder(_, _, _)
InPhaseOrder(k, st, failed) ==
    IF k > Len(events) THEN TRUE
    ELSE LET e == events[k]
             t == e.type
         IN  CASE st = "start" ->
                    t = "status" /\ InPhaseOrder(k + 1, "round", FALSE)
               [] st = "round" ->
                    \/ t = "reasoning_token" /\ InPhaseOrder(k + 1, "round", FALSE)
                    \/ t = "done" /\ InPhaseOrder(k + 1, "end", FALSE)
                    \/ t = "reasoning" /\ InPhaseOrder(k + 1, "first_call", FALSE)
               [] st = "first_call" ->
                    t = "tool_call" /\ InPhaseOrder(k + 1, "called", failed)
               [] st = "calls" ->
                    \/ t = "tool_call" /\ InPhaseOrder(k + 1, "called", failed)
                    \/ t = "status"
                         /\ InPhaseOrder(k + 1, IF failed THEN "round" ELSE "interpret", FALSE)
               [] st = "called" ->
                    t = "tool_result" /\ InPhaseOrder(k + 1, "calls", failed \/ ~e.success)
               [] st = "interpret" ->
                    \/ t = "token" /\ InPhaseOrder(k + 1, "interpret", FALSE)
                    \/ t = "done" /\ InPhaseOrder(k + 1, "end", FALSE)
               [] OTHER -> FALSE

\* the reasoning_token texts between the last status before position k and k, joined
ReasoningTextBefore(k) ==
    LET from == SetMax({j \in 1..k : events[j].type = "status"})
        toks == SelectSeq(SubSeq(events, from, k), LAMBDA e : e.type = "reasoning_token")
    IN  Join([j \in 1..Len(toks) |-> toks[j].token], 1)

\* C15: the events of a turn follow the phase order: status first and
\* before every model request; in a reasoning round reasoning_token events,
\* then done, or one reasoning event followed by tool_call/tool_result
\* pairs; token events only after the status of the interpretation; nothing
\* after done. The reasoning event carries the stripped text of the round,
\* or the placeholder when that is empty, and is never empty.
C15_PhaseOrder ==
    /\ InPhaseOrder(1, "start", FALSE)
    /\ gen.pc # "idle" => events # <<>> /\ events[1].type = "status"
    /\ gen.pc \in {"request", "request2", "irequest", "irequest2"}
          => Last(events).type = "status"
    /\ CountOf([k \in DOMAIN events |-> events[k].type], "done") <= 1
    /\ \A k \in DOMAIN events :
          /\ events[k].type = "done" => k = Len(events)
          /\ events[k].type = "reasoning"
               => /\ events[k].content # <<>>
                  /\ events[k].content
                        = IF Strip(ReasoningTextBefore(k)) # <<>>
                          THEN Strip(ReasoningTextBefore(k)) ELSE PLACEHOLDER

\* a whole turn: a blank reasoning text replaced by the placeholder, one
\* tool call, the interpretation streamed as a token, done last
C15_Witness ==
    /\ Len(events) = 8
    /\ events[1].type = "status"
    /\ events[2] = [type |-> "reasoning_token", token |-> <<" ">>]
    /\ events[3] = [type |-> "reasoning", content |-> PLACEHOLDER]
    /\ events[4].type = "tool_call"
    /\ events[5].type = "tool_result"
    /\ events[6].type = "status"
    /\ events[7].type = "token"
    /\ events[8].type = "done"

\* the position of the nearest assistant message before q, 0 when there is none
NearestAssistantBefore(msgs, q) ==
    LET before == {p \in 1..(q - 1) : msgs[p].role = "assistant"}
    IN  IF before = {} THEN 0 ELSE SetMax(before)

\* C16: the tool_call_id of every tool message matches exactly one request
\* of the nearest assistant message before it.
C16_ToolIdMatchesOneRequest ==
    \A id \in DOMAIN conversations :
        LET msgs == conversations[id]
        IN  \A q \in DOMAIN msgs :
               msgs[q].role = "tool"
               => LET p == NearestAssistantBefore(msgs, q)
                  IN  /\ p > 0
                      /\ Cardinality({k \in DOMAIN msgs[p].raw_tool_calls :
                                         msgs[p].raw_tool_calls[k].id = msgs[q].tool_call_id}) = 1

\* two requests arrived with the id call_a: both tool messages carry it
C16_Witness ==
    \E id \in DOMAIN conversations :
        LET msgs == conversations[id]
        IN  \E p \in DOMAIN msgs :
               /\ Len(msgs) >= p + 2
               /\ Len(msgs[p].raw_tool_calls) = 2
               /\ msgs[p].raw_tool_calls[1].id = "call_a"
               /\ msgs[p].raw_tool_calls[2].id = "call_a"
               /\ msgs[p + 1].role = "tool" /\ msgs[p + 1].tool_call_id = "call_a"
               /\ msgs[p + 2].role = "tool" /\ msgs[p + 2].tool_call_id = "call_a"

----------------------------------------------------------------------------
(* The claims about the conversation store                                 *)

\* C17: every conversation of the store has a message, and its first
\* message has role system.
C17_SystemFirst ==
    \A id \in DOMAIN conversations :
        /\ Len(conversations[id]) >= 1
        /\ conversations[id][1].role = "system"
        /\ conversations[id][1].type = "system"

\* a conversation made by create_conversation and never used, and one made
\* by a turn that has since ended with tool calls
C17_Witness ==
    /\ \E id \in DOMAIN conversations : Len(conversations[id]) = 1
    /\ \E id \in DOMAIN conversations :
          /\ Len(conversations[id]) >= 5
          /\ conversations[id][1].role = "system"
          /\ conversations[id][2].role = "user"
    /\ gen.pc = "idle"

\* the system message may change its text only, any other message nothing
SameButSystemText(k, m, n) ==
    IF k = 1 /\ m.role = "system" THEN [n EXCEPT !.content = m.content] = m ELSE n = m

\* as SameButSystemText, and the assistant message of a round may once
\* receive the records of its tool calls
SameButSystemTextAndRecords(k, m, n) ==
    \/ SameButSystemText(k, m, n)
    \/ /\ k > 1
       /\ m.role = "assistant" /\ m.type = "reasoning" /\ m.raw_tool_calls # <<>>
       /\ ~m.tool_calls_set /\ n.tool_calls_set
       /\ [n EXCEPT !.tool_calls = m.tool_calls, !.tool_calls_set = FALSE] = m

----------------------------------------------------------------------------
(* The claims about the context budgeter                                   *)

BuildDone == gen.pc = "_build_api_messages"

C20_WholeTurns ==
    BuildDone
    => LET api == gen.api_messages
           msgs == conversations[1]
           n == Len(api) - 1
           first == Len(msgs) - n + 1
       IN  /\ Len(api) >= 1
           /\ api[1] = [role |-> "system", tool_call_id |-> "<absent>",
                        content |-> gen.system_content, tool_calls |-> <<>>]
           /\ n <= Len(msgs) - 1
           /\ \A j \in 1..n : api[1 + j] = to_api_dict(msgs[first + j - 1])
           /\ n > 0 => msgs[first].role = "user"
           /\ \A k \in first..Len(msgs) :
                 msgs[k].role = "user"
                 => \A h \in (k + 1)..Len(msgs) :
                       (\A g \in (k + 1)..h : msgs[g].role # "user")
                       => \E j \in 1..n : api[1 + j] = to_api_dict(msgs[h])
           /\ \A j \in 2..Len(api) :
                 api[j].role = "tool"
                 => \E h \in 2..(j - 1) :
                       /\ api[h].role = "assistant"
                       /\ \E c \in DOMAIN api[h].tool_calls :
                             api[h].tool_calls[c].id = api[j].tool_call_id

\* a ceiling that holds the newest turn with its tool round but not the
\* turn before it
C20_Witness ==
    /\ BuildDone
    /\ gen.max_tokens <= MaxCeiling
    /\ Len(gen.api_messages) = 5
    /\ Len(conversations[1]) > 5
    /\ gen.api_messages[2].role = "user"
    /\ gen.api_messages[3].role = "assistant"
    /\ gen.api_messages[4].role = "tool"

\* the places where a suffix of whole turns can start: each user message,
\* and the place after the last message (the empty suffix)
TurnStarts(msgs) ==
    {k \in 2..Len(msgs) : msgs[k].role = "user"} \cup {Len(msgs) + 1}

\* the estimate for the system message with the given text followed by the
\* messages of msgs from place p on
SuffixCost(msgs, system_content, p) ==
    _count_tokens_for_messages(
        <<[role |-> "system", tool_call_id |-> "<absent>",
           content |-> system_content, tool_calls |-> <<>>]>>
        \o [j \in 1..(Len(msgs) - p + 1) |-> to_api_dict(msgs[p + j - 1])])

\* C21: the tail of the output is the longest suffix of whole turns whose
\* estimate, system message included, is at most the ceiling: it starts at
\* a turn start, no earlier turn start gives a suffix that fits, a ceiling
\* that holds everything returns every message after the stored system
\* message, and a non-empty tail makes an output whose estimate is at most
\* the ceiling.
C21_LongestFittingSuffix ==
    BuildDone
    => LET api == gen.api_messages
           msgs == conversations[1]
           first == Len(msgs) - (Len(api) - 1) + 1
       IN  /\ first \in TurnStarts(msgs)
           /\ \A p \in TurnStarts(msgs) :
                 p < first => SuffixCost(msgs, gen.system_content, p) > gen.max_tokens
           /\ SuffixCost(msgs, gen.system_content, 2) <= gen.max_tokens
                 => Len(api) = Len(msgs)
           /\ Len(api) > 1 => _count_tokens_for_messages(api) <= gen.max_tokens

\* two turns that fill the ceiling to the last token: both are returned
C21_Witness ==
    /\ BuildDone
    /\ Len(conversations[1]) = 5
    /\ Len(gen.api_messages) = 5
    /\ _count_tokens_for_messages(gen.api_messages) = gen.max_tokens
    /\ gen.api_messages[4].role = "user"

\* the newest turn of msgs: from its last user message to its end
NewestTurnStart(msgs) == SetMax({k \in 2..Len(msgs) : msgs[k].role = "user"} \cup {0})

\* C22: the output begins with a system message that carries the given
\* text and holds no other system message, also when the system message
\* alone is at or over the ceiling; when the newest turn with the system
\* message is over the ceiling, the output is the system message alone.
C22_SystemAlwaysKept ==
    BuildDone
    => LET api == gen.api_messages
           msgs == conversations[1]
           newest == NewestTurnStart(msgs)
       IN  /\ Len(api) >= 1
           /\ api[1].role = "system"
           /\ api[1].content = gen.system_content
           /\ \A j \in 2..Len(api) : api[j].role # "system"
           /\ (newest = 0 \/ SuffixCost(msgs, gen.system_content, newest) > gen.max_tokens)
                 => Len(api) = 1

\* a ceiling below the estimate of the system message alone, and a
\* conversation that holds a turn: the system message is all that is sent
C22_Witness ==
    /\ BuildDone
    /\ gen.max_tokens < SuffixCost(conversations[1], gen.system_content,
                                   Len(conversations[1]) + 1)
    /\ Len(conversations[1]) > 1
    /\ gen.api_messages = <<[role |-> "system", tool_call_id |-> "<absent>",
                             content |-> gen.system_content, tool_calls |-> <<>>]>>

----------------------------------------------------------------------------
(* The claims about provider failures                                      *)

\* the generator is about to submit a request, or has one rejected for
\* its length and is about to submit the second
FirstRequestPcs == {"request", "irequest"}

SecondRequestPcs == {"request2", "irequest2"}

\* the ceiling the spec names for the fallback
EmergencyCeiling == 12000

\* C23: in the reasoning phase, its retry rounds and the interpretation
\* phase, a context-length rejection of the request makes the code rebuild
\* the message list from the unchanged conversation under the emergency
\* ceiling and submit it once more: the second request is never followed by
\* a third or by another rebuild.  When the second request is rejected for
\* its length the turn ends FAILED with the 'start a new conversation'
\* text, and the conversation is still in the store with the messages it
\* had.
C23_ContextLengthFallback ==
    [][ /\ (gen.pc \in FirstRequestPcs /\ gen'.pc \in SecondRequestPcs)
           => /\ gen'.pc = (IF gen.pc = "request" THEN "request2" ELSE "irequest2")
              /\ conversations' = conversations
              /\ events' = events
              /\ gen'.api_messages =
                    _build_api_messages(conversations[gen.conv],
                                        gen'.api_messages[1].content, EmergencyCeiling)
              /\ gen'.api_messages[1].content.kind = "prompt"
              /\ gen'.api_messages[1].content.name
                    = (IF gen.pc = "request" THEN "system+reasoning" ELSE "system+interpret")
        /\ gen.pc \in SecondRequestPcs
           => /\ gen'.pc \in {"stream", "istream", "idle"}
              /\ gen'.pc # "idle" => gen'.api_messages = gen.api_messages
              /\ gen'.pc = "idle"
                 => outcome' \in {_CONTEXT_LENGTH_MSG, "BadRequestError", "APIError"}
        /\ outcome' = _CONTEXT_LENGTH_MSG /\ outcome # _CONTEXT_LENGTH_MSG
           => /\ gen.pc \in SecondRequestPcs
              /\ gen'.pc = "idle"
              /\ Last(phases') = "FAILED"
              /\ gen.conv \in DOMAIN conversations'
              /\ conversations' = conversations ]_vars

\* the interpretation request of a turn whose tool result is over the
\* emergency ceiling was rejected twice: the turn has failed with the
\* user-facing text and the conversation holds the turn's messages
C23_Witness ==
    /\ gen.pc = "idle"
    /\ outcome = _CONTEXT_LENGTH_MSG
    /\ Last(phases) = "FAILED"
    /\ CountOf(phases, "INTERPRETING") = 1
    /\ \E id \in DOMAIN conversations :
          /\ Len(conversations[id]) = 4
          /\ conversations[id][4].role = "tool"
          /\ conversations[id][4].content = JsonDumps("results", ROWS_SOME, <<>>)

\* the events the streaming client has received
Sent == _event_generator(events, outcome)

TerminalTypes == {"done", "error"}

ProviderPcs == {"request", "request2", "stream", "irequest", "irequest2", "istream"}

ProviderErrors == {"APIError", "BadRequestError"}

\* C24: when a request to the provider or the iteration of its stream
\* fails with an error that is no context-length rejection, in the
\* reasoning phase (first round or a retry round) or in the interpretation
\* phase, the turn ends as failed, the conversation is left as it was (the
\* text streamed so far in that phase does not become a message), and the
\* streaming client receives, after the events already sent, one error
\* event whose message is the text of the error.
C24_ProviderFailureEndsTurn ==
    [][ (outcome' \in ProviderErrors /\ gen.pc # "idle")
        => /\ gen.pc \in ProviderPcs
           /\ gen'.pc = "idle"
           /\ Last(phases') = "FAILED"
           /\ conversations' = conversations
           /\ LET sent == _event_generator(events', outcome')
              IN  /\ Len(sent) = Len(events) + 1
                  /\ SubSeq(sent, 1, Len(events)) = events
                  /\ Last(sent).type = "error"
                  /\ Last(sent).message = outcome'
                  /\ Last(sent).message # "" ]_vars

\* the interpretation stream broke after a token was sent: the client has
\* the token and then the error event, and the conversation ends with the
\* tool message
C24_Witness ==
    /\ outcome = "APIError"
    /\ gen.pc = "idle"
    /\ Len(Sent) >= 2
    /\ Sent[Len(Sent) - 1].type = "token"
    /\ Last(Sent) = [type |-> "error", message |-> "APIError"]
    /\ \E id \in DOMAIN conversations : Last(conversations[id]).role = "tool"

\* the places of the terminal events among the events sent
TerminalPlaces(sent) == {k \in DOMAIN sent : sent[k].type \in TerminalTypes}

----------------------------------------------------------------------------
(* The claims about the synchronous caller and the resolution of the id    *)

\* the queries of the tool_call events, in the order of the events
ToolCallQueries(evs) ==
    LET tcs == SelectSeq(evs, LAMBDA e : e.type = "tool_call")
    IN  [k \in DOMAIN tcs |-> tcs[k].query]

\* C29: for a turn that completed, process_message returns the
\* conversation id and the response of the turn's done event, has taken
\* the events up to done and no more, and has called on_tool_call once for
\* each tool_call event, in the order of the events, with the event's
\* query; without a callback nothing is called and the pair is the same.
C29_ProcessMessageResult ==
    outcome = "done"
    => LET r == process_message(events, outcome, TRUE)
           quiet == process_message(events, outcome, FALSE)
           places == {k \in DOMAIN events : events[k].type = "done"}
       IN  /\ Cardinality(places) = 1
           /\ r.how = "return"
           /\ \A k \in places :
                 /\ r.conversation_id = events[k].conversation_id
                 /\ r.response = events[k].response
                 /\ r.consumed = k
           /\ r.callbacks = ToolCallQueries(events)
           /\ quiet.callbacks = <<>>
           /\ quiet.conversation_id = r.conversation_id
           /\ quiet.response = r.response

\* a completed turn with a failed round and a second round: two tool_call
\* events with different queries, and an answer that is not empty
C29_Witness ==
    /\ outcome = "done"
    /\ LET r == process_message(events, outcome, TRUE)
       IN  /\ Len(r.callbacks) = 2
           /\ r.callbacks[1] # r.callbacks[2]
           /\ r.response # <<>>
           /\ r.conversation_id \in DOMAIN conversations

\* the conversation_id values a caller may pass
ConversationIds == DOMAIN conversations \cup {NoneId, UnknownId}

\* a conversation as create_conversation seeds it
IsSeed(msgs) ==
    /\ Len(msgs) = 1
    /\ msgs[1].role = "system"
    /\ msgs[1].type = "system"
    /\ msgs[1].content.kind = "prompt"
    /\ msgs[1].content.name = "system"

\* C30: with an id that is None or not in the store, the resolution adds
\* exactly one conversation, seeded with a system message, under an id the
\* store did not hold, and leaves the others as they were; with an id in the
\* store it adds none and gives that id.  The step that starts a turn
\* resolves its id this way and appends the user message to the resolved
\* conversation, no later step of the turn changes the set of stored ids,
\* and the done event carries the id of the resolved conversation.
C30_ResolveOrCreate ==
    [][ /\ \A cid \in ConversationIds : \A t \in {now, now + 1} :
              LET r == ResolveConversation(cid, t)
              IN  IF cid \in DOMAIN conversations
                  THEN r.id = cid /\ r.store = conversations
                  ELSE /\ r.id \notin DOMAIN conversations
                       /\ DOMAIN r.store = DOMAIN conversations \cup {r.id}
                       /\ IsSeed(r.store[r.id])
                       /\ \A old \in DOMAIN conversations : r.store[old] = conversations[old]
        /\ turns' = turns + 1
           => \E cid \in ConversationIds : \E t \in {now, now + 1} :
                 LET r == ResolveConversation(cid, t)
                 IN  /\ gen'.conv = r.id
                     /\ DOMAIN conversations' = DOMAIN r.store
                     /\ \A old \in DOMAIN r.store \ {r.id} :
                           conversations'[old] = r.store[old]
                     /\ Len(conversations'[r.id]) = Len(r.store[r.id]) + 1
                     /\ Last(conversations'[r.id]).role = "user"
                     /\ IsSeed(<<conversations'[r.id][1]>>)
        /\ gen.pc # "idle" => DOMAIN conversations' = DOMAIN conversations
        /\ (outcome' = "done" /\ gen.pc # "idle")
           => /\ Last(events').type = "done"
              /\ Last(events').conversation_id = gen.conv
              /\ gen.conv \in DOMAIN conversations' ]_vars

\* a turn started without an id on an empty store has completed: the store
\* holds one conversation, with the system message, the user message and
\* the answer, and the done event carries its id
C30_Witness ==
    /\ outcome = "done"
    /\ DOMAIN conversations = {1}
    /\ Len(conversations[1]) = 3
    /\ conversations[1][2].role = "user"
    /\ Last(events).conversation_id = 1

----------------------------------------------------------------------------
(* The claims about abandoned turns and providers that do not answer       *)

\* every assistant message of msgs that carries requests is followed by one
\* tool message for each of them, in their order
RequestsAnswered(msgs) ==
    \A k \in DOMAIN msgs :
       (msgs[k].role = "assistant" /\ msgs[k].raw_tool_calls # <<>>)
       => /\ k + Len(msgs[k].raw_tool_calls) <= Len(msgs)
          /\ \A j \in DOMAIN msgs[k].raw_tool_calls :
                /\ msgs[k + j].role = "tool"
                /\ msgs[k + j].tool_call_id = msgs[k].raw_tool_calls[j].id

\* C26: when the caller abandons the event stream at a yield, the
\* generator ends there: the conversation is the one of that moment, no
\* chunk of the provider is consumed afterwards, the conversation does not
\* end with an assistant message made from a part of a stream, and in it
\* every assistant message that carries tool-call requests is followed by
\* one tool message for each request.
C26_AbandonLeavesCompletedPhases ==
    [][ /\ (outcome' = "GeneratorExit" /\ gen.pc # "idle")
           => /\ gen.at_yield
              /\ gen'.pc = "idle"
              /\ conversations' = conversations
              /\ deltas' = deltas
              /\ RequestsAnswered(conversations'[gen.conv])
        /\ (outcome = "GeneratorExit" /\ gen.pc = "idle")
           => /\ deltas' = deltas
              /\ \A id \in DOMAIN conversations : conversations'[id] = conversations[id] ]_vars

\* the caller left after the tool_call event: the conversation ends with
\* the assistant message that carries the request, and no tool message
C26_Witness ==
    /\ outcome = "GeneratorExit"
    /\ gen.pc = "idle"
    /\ Last(events).type = "tool_call"
    /\ \E id \in DOMAIN conversations :
          /\ Last(conversations[id]).role = "assistant"
          /\ Len(Last(conversations[id]).raw_tool_calls) = 1

\* the generator waits for the provider: for the answer to a request, for
\* the next chunk of a stream or for its end
AwaitingProvider == gen.pc \in ProviderPcs

\* C27: no turn waits for the provider forever: every wait ends, with the
\* provider's answer or, when none comes, with the turn FAILED by the
\* timeout the caller supplied, and no part of an assistant message
\* committed.
C27_ProviderWaitIsBounded == AwaitingProvider ~> ~AwaitingProvider

\* the first request of a turn is submitted and the generator waits
C27_Witness ==
    /\ gen.pc = "request"
    /\ phases = <<"REASONING">>
    /\ Len(gen.api_messages) = 2

----------------------------------------------------------------------------
(* Two requests at once                                                     *)

\* the results the turn has shown its caller, in order
ResultsOf(evs) ==
    LET shown == SelectSeq(evs, LAMBDA e : e.type = "tool_result")
    IN  [k \in DOMAIN shown |-> shown[k].result]

\* the contents of the tool messages, in order
ContentsOf(msgs) ==
    LET made == SelectSeq(msgs, LAMBDA m : m.role = "tool")
    IN  [k \in DOMAIN made |-> made[k].content]

\* the assistant messages that carry requests, and those that do not
Requesting(msgs) ==
    Cardinality({k \in DOMAIN msgs : /\ msgs[k].role = "assistant"
                                      /\ msgs[k].raw_tool_calls # <<>>})

Answering(msgs) ==
    Cardinality({k \in DOMAIN msgs : /\ msgs[k].role = "assistant"
                                      /\ msgs[k].raw_tool_calls = <<>>})

EventsOfType(evs, type) ==
    Cardinality({k \in DOMAIN evs : evs[k].type = type})

\* the conversation holds, after its last user message, what the turn with
\* the events evs has produced and nothing else: one message with requests
\* per reasoning event, the results the turn has shown as tool messages in
\* the same order (the newest one may still be on its way into the list),
\* and one answer if the turn is done
TurnMatches(msgs, evs) ==
    LET turn == CurrentTurn(msgs)
        made == ContentsOf(turn)
        shown == ResultsOf(evs)
    IN  /\ turn # <<>>
        /\ Len(made) <= Len(shown)
        /\ Len(shown) <= Len(made) + 1
        /\ made = SubSeq(shown, 1, Len(made))
        /\ Requesting(turn) = EventsOfType(evs, "reasoning")
        /\ Answering(turn) = EventsOfType(evs, "done")

\* the step changes no stored conversation but the one of the turn that
\* takes it, and adds no conversation but that one
OnlyOwnConversation ==
    LET own == IF gen.pc # "idle" THEN {gen.conv}
               ELSE IF gen'.pc # "idle" /\ parked' = parked THEN {gen'.conv}
               ELSE {}
    IN  /\ DOMAIN conversations \subseteq DOMAIN conversations'
        /\ DOMAIN conversations' \ DOMAIN conversations \subseteq own
        /\ \A id \in DOMAIN conversations :
               conversations'[id] # conversations[id] => id \in own
        /\ \A id \in ParkedConversation :
               /\ id \notin own
               /\ conversations'[id] = conversations[id]

\* the step that ends a turn with an answer leaves that answer last in the
\* turn's conversation
AnswerIsOwn ==
    (gen.pc # "idle" /\ gen'.pc = "idle" /\ parked' = parked /\ outcome' = "done")
        => LET msgs == conversations'[gen.conv]
               response == Last(events').response
           IN  /\ TurnMatches(msgs, events')
               /\ Last(msgs).role = "assistant"
               /\ \/ Last(msgs).content = Str(response)
                  \/ response = <<>> /\ Last(msgs).content = NoneContent

\* C28: two turns on different conversation ids, interleaved at every
\* step, do not interfere.  Every step changes only the conversation of
\* the turn that takes it; the conversation of the other turn stays as it
\* is; and each conversation holds, for its turn, exactly what that turn
\* has produced: its own results in its own order, its own answer last
C28_ConcurrentTurnsDoNotInterfere ==
    [][ /\ OnlyOwnConversation
        /\ AnswerIsOwn
        /\ gen'.pc # "idle" => TurnMatches(conversations'[gen'.conv], events')
        /\ parked'.gen.pc # "idle" =>
               TurnMatches(conversations'[parked'.gen.conv], parked'.events)
      ]_vars

\* both turns are under way, on two conversations, each with a result of
\* its own
C28_Witness ==
    /\ gen.pc = "tool_append"
    /\ parked.gen.pc = "round_end"
    /\ gen.conv # parked.gen.conv
    /\ ResultsOf(events) # <<>>
    /\ ContentsOf(conversations[parked.gen.conv]) # <<>>
    /\ ContentsOf(conversations[gen.conv]) = <<>>

----------------------------------------------------------------------------
(* The order of the validation checks                                      *)

\* the five checks, each asked on its own of the query the validator is
\* handed (the normalized query), numbered in the order of the contract
FailingChecks(query) ==
    LET stripped == Strip(query)
    IN  (IF IsEmptyQuery(query) THEN {1} ELSE {})
        \cup (IF ~StartsWithSelect(stripped) THEN {2} ELSE {})
        \cup (IF HasSemicolon(stripped) THEN {3} ELSE {})
        \cup (IF _BLOCKED_PATTERN_search(stripped).found THEN {4} ELSE {})
        \cup (IF HasCommentMarker(stripped) THEN {5} ELSE {})

\* the reason each check gives
CheckReasons ==
    <<"Query must not be empty or whitespace-only.",
      "Only SELECT queries are allowed. Received query starting with: ",
      "Query must not contain semicolons. Multiple statements are not allowed.",
      "Query contains a blocked keyword: ",
      "Query must not contain SQL comments (-- or /*).">>

\* C33: a query that fails several checks is rejected with the reason of
\* the first failing check in the order empty, not SELECT, semicolon,
\* denylisted keyword, comment marker; and nothing is executed
C33_FirstFailingCheckWins ==
    \A k \in DOMAIN calls :
        LET failing == FailingChecks(Normalize(calls[k].input))
            r == calls[k].result
        IN  IF failing = {}
            THEN r.exc # "ValueError"
            ELSE /\ r.exc = "ValueError"
                 /\ r.msg = CheckReasons[SetMin(failing)]
                 /\ ~r.executed

\* a statement that is no SELECT, holds a semicolon, a denylisted keyword
\* and a comment marker, rejected for not being a SELECT
C33_Witness ==
    \E k \in DOMAIN calls :
        /\ FailingChecks(Normalize(calls[k].input)) = {2, 3, 4, 5}
        /\ calls[k].result.msg = CheckReasons[2]
        /\ calls[k].result.detail = <<"D","r","o","p",";","/","*">>

----------------------------------------------------------------------------
(* The rate limiter                                                        *)

\* the admissions of api_key whose timestamp lies in the window that ends
\* at the instant t
InWindow(api_key, t) ==
    Cardinality({k \in DOMAIN admitted[api_key] :
                    admitted[api_key][k] > t - WINDOW_SECONDS})

\* the step is a call of rate_limit for api_key
IsRateLimitCall(api_key) ==
    /\ reply'.op = "rate_limit"
    /\ reply'.api_key = api_key
    /\ reply' # reply \/ admitted' # admitted \/ _request_log' # _request_log

\* C32: for each api key, the admitted requests whose timestamps lie in
\* the last WINDOW_SECONDS seconds never number more than the limit; a
\* request that arrives when they number the limit gets 429 and is not
\* admitted, and a request that arrives when fewer are left in the window
\* is admitted
C32_WindowNeverExceedsLimit ==
    /\ [](\A api_key \in ApiKeys : InWindow(api_key, clock) <= limit)
    /\ [][\A api_key \in ApiKeys :
            IsRateLimitCall(api_key) =>
                IF InWindow(api_key, clock) >= limit
                THEN /\ reply'.status = 429
                     /\ admitted' = admitted
                ELSE /\ reply'.status = 200
                     /\ admitted' = [admitted EXCEPT ![api_key] = Append(@, clock)]
         ]_vars

\* a key that used its allowance, was admitted again once the window had
\* passed, and is now turned away again
C32_Witness ==
    \E api_key \in ApiKeys :
        /\ limit >= 1
        /\ Len(admitted[api_key]) = 2 * limit
        /\ admitted[api_key][limit + 1] = admitted[api_key][1] + WINDOW_SECONDS
        /\ reply.op = "rate_limit"
        /\ reply.api_key = api_key
        /\ reply.status = 429

\* the timestamps the limiter holds for api_key
LogOf(log, api_key) == IF api_key \in DOMAIN log THEN log[api_key] ELSE <<>>

\* the step puts a timestamp into api_key's log that was not there
AddsTimestamp(api_key) ==
    \E t \in Instants :
        CountOf(LogOf(_request_log', api_key), t) > CountOf(LogOf(_request_log, api_key), t)

\* C38: only an admitted request consumes allowance.  A step that adds a
\* timestamp to a key's log is a call of rate_limit for that key that was
\* answered 200 (so get_remaining, get_reset_time and a request answered
\* 429 add none), and a call for one key leaves every other key's log as
\* it was
C38_OnlyAdmittedRequestsAreRecorded ==
    [][ /\ \A api_key \in ApiKeys :
              AddsTimestamp(api_key) =>
                  /\ reply'.op = "rate_limit"
                  /\ reply'.api_key = api_key
                  /\ reply'.status = 200
                  /\ admitted'[api_key] = Append(admitted[api_key], clock)
                  /\ LogOf(_request_log', api_key)
                        = Append(LogOf(_prune(_request_log, api_key, clock), api_key), clock)
        /\ \A api_key \in ApiKeys :
              api_key # reply'.api_key =>
                  /\ LogOf(_request_log', api_key) = LogOf(_request_log, api_key)
                  /\ api_key \in DOMAIN _request_log' <=> api_key \in DOMAIN _request_log
        /\ reply'.op \in {"get_remaining", "get_reset_time"} => admitted' = admitted
      ]_vars

\* one key has just been turned away with its log full, while the other
\* key holds a request of its own
C38_Witness ==
    /\ reply.op = "rate_limit"
    /\ reply.status = 429
    /\ limit >= 1
    /\ Len(LogOf(_request_log, reply.api_key)) = limit
    /\ \E other \in ApiKeys \ {reply.api_key} : LogOf(_request_log, other) # <<>>

----------------------------------------------------------------------------
(* The reconstruction of streamed tool calls                               *)

\* the fragments of a stream in the order of arrival
RECURSIVE ArrivalOrder(_, _)
ArrivalOrder(stream, k) ==
    IF k > Len(stream) THEN <<>> ELSE stream[k] \o ArrivalOrder(stream, k + 1)

\* the last non-empty value among vals, or "" when there is none
LastNonEmpty(vals) ==
    LET at == {k \in DOMAIN vals : vals[k] # ""}
    IN  IF at = {} THEN "" ELSE vals[SetMax(at)]

\* the request the contract asks for the call index idx
Reconstructed(arrived, idx) ==
    LET own == SelectSeq(arrived, LAMBDA f : f.index = idx)
    IN  [id |-> LastNonEmpty([k \in DOMAIN own |-> own[k].id]),
         name |-> LastNonEmpty([k \in DOMAIN own |-> own[k].name]),
         arguments |-> Join([k \in DOMAIN own |-> own[k].arguments], 1)]

\* C36: whatever the interleaving of the fragments across call indices,
\* the request rebuilt for an index has the concatenation, in arrival
\* order, of that index's argument fragments, and the last non-empty id
\* and name received for it; there is one request per index that
\* occurred, in ascending order of index
C36_FragmentsReconstructed ==
    gen.pc = "raw_tool_calls" =>
        LET arrived == ArrivalOrder(gen.stream, 1)
            indexes == {arrived[k].index : k \in DOMAIN arrived}
            raw == gen.raw_tool_calls
        IN  /\ Len(raw) = Cardinality(indexes)
            /\ \A idx \in indexes :
                   LET place == Cardinality({j \in indexes : j <= idx})
                   IN  raw[place] = Reconstructed(arrived, idx)

\* fragments of two calls interleaved, the higher index first, each call
\* rebuilt from three fragments
C36_Witness ==
    /\ gen.pc = "raw_tool_calls"
    /\ Len(gen.stream) = MaxChunks
    /\ ArrivalOrder(gen.stream, 1)[1].index = 1
    /\ gen.raw_tool_calls =
          <<[id |-> "call_a", name |-> "execute_sql_query",
             arguments |-> <<OPENQ, QSEL, CLOSEQ>>],
            [id |-> "call_b", name |-> "execute_sql_query",
             arguments |-> <<OPENQ, QDROP, CLOSEQ>>]>>

----------------------------------------------------------------------------
(* The interpretation phase                                                *)

\* the turn is under way and has entered INTERPRETING
InInterpreting ==
    /\ gen.pc # "idle"
    /\ \E k \in DOMAIN phases : phases[k] = "INTERPRETING"

\* the text of the token events, in order
RECURSIVE TokenText(_, _)
TokenText(evs, k) ==
    IF k > Len(evs) THEN <<>>
    ELSE (IF evs[k].type = "token" THEN evs[k].token ELSE <<>>) \o TokenText(evs, k + 1)

InterpretMessages(msgs) ==
    Cardinality({k \in DOMAIN msgs : msgs[k].type = "interpret"})

\* C35: once INTERPRETING is entered, a step of the turn leaves the gate
\* alone (no call, no statement), emits no tool_call, tool_result or
\* reasoning event, and leaves the conversation as it is, except for the
\* step that ends the turn with done: it appends one assistant message
\* tagged interpret that holds the concatenation of the tokens emitted,
\* the only such message of the turn, and the phase becomes DONE
C35_NoToolAfterInterpreting ==
    [][ InInterpreting =>
          /\ gateVars' = gateVars
          /\ Len(events') >= Len(events)
          /\ SubSeq(events', 1, Len(events)) = events
          /\ \A k \in (Len(events) + 1)..Len(events') :
                 events'[k].type \in {"status", "token", "done"}
          /\ IF outcome' = "done"
             THEN LET msgs == conversations'[gen.conv]
                      m == Last(msgs)
                  IN  /\ msgs = Append(conversations[gen.conv], m)
                      /\ m.role = "assistant"
                      /\ m.type = "interpret"
                      /\ m.raw_tool_calls = <<>>
                      /\ m.content = Str(TokenText(events', 1))
                      /\ InterpretMessages(CurrentTurn(msgs)) = 1
                      /\ Last(events').response = TokenText(events', 1)
                      /\ Last(phases') = "DONE"
             ELSE conversations' = conversations
      ]_vars

\* a turn whose reasoning stream was one chunk (the request call_b), and
\* whose interpretation stream was a tool-call fragment and one text
\* chunk, in either order: it is done, with one gate call
C35_Witness ==
    /\ outcome = "done"
    /\ \E k \in DOMAIN phases : phases[k] = "INTERPRETING"
    /\ deltas = 3
    /\ \A k \in DOMAIN events : events[k].type # "reasoning_token"
    /\ Cardinality({k \in DOMAIN events : events[k].type = "token"}) = 1
    /\ Len(calls) = 1
    /\ \E id \in DOMAIN conversations :
          /\ Len(conversations[id]) = 5
          /\ conversations[id][3].raw_tool_calls =
                <<[id |-> "call_b", name |-> "execute_sql_query",
                   arguments |-> <<OPENQ, QSEL, CLOSEQ>>]>>
          /\ conversations[id][5].type = "interpret"
          /\ conversations[id][5].content = Str(<<"o", "k">>)

----------------------------------------------------------------------------
(* The messages of a turn that ended with done                             *)

\* from place k on, turn is zero or more groups of one assistant message
\* tagged reasoning and one tool message per request of it, in the order
\* of the requests, and then one last assistant message tagged output or
\* interpret that carries no request
RECURSIVE GroupsThenAnswer(_, _)
GroupsThenAnswer(turn, k) ==
    IF k > Len(turn) THEN FALSE
    ELSE IF turn[k].role = "assistant" /\ turn[k].type = "reasoning"
    THEN LET n == Len(turn[k].raw_tool_calls)
         IN  /\ n >= 1
             /\ k + n < Len(turn)
             /\ \A j \in 1..n :
                    /\ turn[k + j].role = "tool"
                    /\ turn[k + j].tool_call_id = turn[k].raw_tool_calls[j].id
             /\ GroupsThenAnswer(turn, k + n + 1)
    ELSE /\ k = Len(turn)
         /\ turn[k].role = "assistant"
         /\ turn[k].type \in {"output", "interpret"}
         /\ turn[k].raw_tool_calls = <<>>

\* C37: after a turn that ended with done, the messages after the turn's
\* user message are groups of a reasoning message and its tool messages,
\* then exactly one final assistant message; the done event's response is
\* that message's content (no content read as the empty text), and its
\* conversation_id names the conversation the turn changed, the only one
\* it changed
C37_DoneTurnShape ==
    /\ [](outcome = "done" =>
            LET e == Last(events)
                turn == CurrentTurn(conversations[e.conversation_id])
            IN  /\ e.type = "done"
                /\ turn # <<>>
                /\ GroupsThenAnswer(turn, 2)
                /\ \/ Last(turn).content = Str(e.response)
                   \/ Last(turn).content = NoneContent /\ e.response = <<>>)
    /\ [][ gen.pc # "idle" =>
             /\ \A id \in DOMAIN conversations \ {gen.conv} :
                    conversations'[id] = conversations[id]
             /\ DOMAIN conversations' = DOMAIN conversations
             /\ outcome' = "done" =>
                    /\ Last(events').conversation_id = gen.conv
                    /\ Len(conversations'[gen.conv]) = Len(conversations[gen.conv]) + 1
         ]_vars

\* a turn with two groups, the first round having failed, and then the
\* interpretation
C37_Witness ==
    /\ outcome = "done"
    /\ LET turn == CurrentTurn(conversations[Last(events).conversation_id])
       IN  /\ Len(turn) = 6
           /\ turn[2].type = "reasoning" /\ turn[3].role = "tool"
           /\ turn[4].type = "reasoning" /\ turn[5].role = "tool"
           /\ turn[6].type = "interpret"
           /\ Last(events).response # <<>>

----------------------------------------------------------------------------
(* The retry path                                                          *)

\* the events of the round that is under way: those after the newest
\* reasoning event
FailedInRound(evs) ==
    LET starts == {k \in DOMAIN evs : evs[k].type = "reasoning"}
    IN  /\ starts # {}
        /\ \E k \in (SetMax(starts) + 1)..Len(evs) :
               evs[k].type = "tool_result" /\ ~evs[k].success

\* the rounds that were carried through (their closing status event is
\* there) and in which a tool call failed
FailedRounds(evs) ==
    {r \in DOMAIN evs :
        /\ evs[r].type = "reasoning"
        /\ \E s \in (r + 1)..Len(evs) :
               /\ evs[s].type = "status"
               /\ \A k \in (r + 1)..(s - 1) : evs[k].type \in {"tool_call", "tool_result"}
               /\ \E k \in (r + 1)..(s - 1) :
                      evs[k].type = "tool_result" /\ ~evs[k].success}

\* the places where the generator waits for the provider or the database
WaitingPcs == {"request", "request2", "stream", "tool_exec", "irequest", "irequest2", "istream"}

\* C34: the retry path has no bound of its own.  A round in which a tool
\* call failed is followed by RETRY_REASONING and a new request, however
\* many rounds failed before it, so the RETRY_REASONING transitions of a
\* turn number the failed rounds; and a turn in which the provider and the
\* database always answer in the end reaches a terminal state
C34_RetryEachFailedRound ==
    /\ [](CountOf(phases, "RETRY_REASONING") = Cardinality(FailedRounds(events)))
    /\ [][ gen.pc = "round_end" =>
             IF FailedInRound(events)
             THEN /\ phases' = phases \o <<"RETRY_REASONING", "REASONING">>
                  /\ gen'.pc = "request"
             ELSE /\ phases' = Append(phases, "INTERPRETING")
                  /\ gen'.pc = "irequest"
         ]_vars
    /\ (\A p \in WaitingPcs : []<>(gen.pc # p))
          => ((gen.pc # "idle") ~> (/\ gen.pc = "idle"
                                     /\ phases # <<>>
                                     /\ Last(phases) \in {"DONE", "FAILED"}))

\* a turn that retried after every chunk the model was allowed to send,
\* and ended when the model sent a round without requests
C34_Witness ==
    /\ CountOf(phases, "RETRY_REASONING") = MaxDeltas
    /\ Cardinality(FailedRounds(events)) = MaxDeltas
    /\ outcome = "done"
    /\ Last(phases) = "DONE"

----------------------------------------------------------------------------
(* Two turns on one conversation, against one script                       *)

\* the types of a turn's events, in order
TypesOf(evts) == [k \in DOMAIN evts |-> evts[k].type]

IsPrefix(a, b) == Len(a) <= Len(b) /\ a = SubSeq(b, 1, Len(a))

\* the first turn is over and kept aside
FirstTurnOver == parked.turns = 1 /\ parked.gen.pc = "idle"

\* the second turn has started / is over as well
SecondTurnStarted == FirstTurnOver /\ turns = 1
BothTurnsOver == SecondTurnStarted /\ gen.pc = "idle"

====
